---- MODULE Spec2Model ----
(***************************************************************************)
(* antikoerper: the collection pipeline.                                   *)
(*                                                                         *)
(*   Item::start (src/src/item.rs)  -- one task per item: interval timer,  *)
(*       produce_result, digest, broadcast send.                           *)
(*   tokio::sync::broadcast         -- the bus the item tasks send on and  *)
(*       the sink tasks receive from (ring buffer, per-receiver cursor).   *)
(*   FileOutput::start, InfluxDBOutput::start (src/src/output.rs)          *)
(*       -- one task per sink: recv, raw write, sample writes.             *)
(*                                                                         *)
(* Texts are sequences of one-character strings.  Time is counted in whole *)
(* seconds.  A timer that is due fires before the clock moves on; every    *)
(* other await (a source execution, a sink write, a recv) may take any     *)
(* amount of time.                                                         *)
(***************************************************************************)
EXTENDS Integers, Sequences, FiniteSets, TLC

(***************************************************************************)
(* Bounds of the model.                                                    *)
(***************************************************************************)
\* The clock stops at MaxTime.
MaxTime == 2
\* Length of the ring buffer of the bus (the channel's capacity), and the
\* capacity of the configuration in which a sink lags behind a backlog.
BusCapacity == 1
LagCapacity == 2
\* The longest text, over TextChars, that a call of digest on its own is
\* given, and the most performance entries of a plugin line.
MaxLen == 3
MaxEntries == 2
\* The most items of a configuration given to conf::load on its own.
MaxItems == 3
\* The most writes of the File sink's write functions on their own.
MaxWrites == 3

(***************************************************************************)
(* Texts.                                                                  *)
(***************************************************************************)
\* The characters with the Unicode property White_Space: what str::trim
\* strips and what \s of the regex crate matches.  A character that has no
\* form in a string of this module is named by its code point.
Whitespace ==
  {"\t", "\n", "U+000B", "\f", "\r", " ", "U+0085", "U+00A0", "U+1680",
   "U+2000", "U+2001", "U+2002", "U+2003", "U+2004", "U+2005", "U+2006",
   "U+2007", "U+2008", "U+2009", "U+200A", "U+2028", "U+2029", "U+202F",
   "U+205F", "U+3000"}
Digits == {"0", "1", "2", "3", "4", "5", "6", "7", "8", "9"}
\* The characters of the Unicode category Nd (decimal number): what \d of
\* the regex crate matches, in a pattern and in a character class.
DecimalNumber ==
  Digits \cup {
   "U+0660", "U+0661", "U+0662", "U+0663", "U+0664", "U+0665", "U+0666",
   "U+0667", "U+0668", "U+0669", "U+06F0", "U+06F1", "U+06F2", "U+06F3",
   "U+06F4", "U+06F5", "U+06F6", "U+06F7", "U+06F8", "U+06F9", "U+07C0",
   "U+07C1", "U+07C2", "U+07C3", "U+07C4", "U+07C5", "U+07C6", "U+07C7",
   "U+07C8", "U+07C9", "U+0966", "U+0967", "U+0968", "U+0969", "U+096A",
   "U+096B", "U+096C", "U+096D", "U+096E", "U+096F", "U+09E6", "U+09E7",
   "U+09E8", "U+09E9", "U+09EA", "U+09EB", "U+09EC", "U+09ED", "U+09EE",
   "U+09EF", "U+0A66", "U+0A67", "U+0A68", "U+0A69", "U+0A6A", "U+0A6B",
   "U+0A6C", "U+0A6D", "U+0A6E", "U+0A6F", "U+0AE6", "U+0AE7", "U+0AE8",
   "U+0AE9", "U+0AEA", "U+0AEB", "U+0AEC", "U+0AED", "U+0AEE", "U+0AEF",
   "U+0B66", "U+0B67", "U+0B68", "U+0B69", "U+0B6A", "U+0B6B", "U+0B6C",
   "U+0B6D", "U+0B6E", "U+0B6F", "U+0BE6", "U+0BE7", "U+0BE8", "U+0BE9",
   "U+0BEA", "U+0BEB", "U+0BEC", "U+0BED", "U+0BEE", "U+0BEF", "U+0C66",
   "U+0C67", "U+0C68", "U+0C69", "U+0C6A", "U+0C6B", "U+0C6C", "U+0C6D",
   "U+0C6E", "U+0C6F", "U+0CE6", "U+0CE7", "U+0CE8", "U+0CE9", "U+0CEA",
   "U+0CEB", "U+0CEC", "U+0CED", "U+0CEE", "U+0CEF", "U+0D66", "U+0D67",
   "U+0D68", "U+0D69", "U+0D6A", "U+0D6B", "U+0D6C", "U+0D6D", "U+0D6E",
   "U+0D6F", "U+0DE6", "U+0DE7", "U+0DE8", "U+0DE9", "U+0DEA", "U+0DEB",
   "U+0DEC", "U+0DED", "U+0DEE", "U+0DEF", "U+0E50", "U+0E51", "U+0E52",
   "U+0E53", "U+0E54", "U+0E55", "U+0E56", "U+0E57", "U+0E58", "U+0E59",
   "U+0ED0", "U+0ED1", "U+0ED2", "U+0ED3", "U+0ED4", "U+0ED5", "U+0ED6",
   "U+0ED7", "U+0ED8", "U+0ED9", "U+0F20", "U+0F21", "U+0F22", "U+0F23",
   "U+0F24", "U+0F25", "U+0F26", "U+0F27", "U+0F28", "U+0F29", "U+1040",
   "U+1041", "U+1042", "U+1043", "U+1044", "U+1045", "U+1046", "U+1047",
   "U+1048", "U+1049", "U+1090", "U+1091", "U+1092", "U+1093", "U+1094",
   "U+1095", "U+1096", "U+1097", "U+1098", "U+1099", "U+17E0", "U+17E1",
   "U+17E2", "U+17E3", "U+17E4", "U+17E5", "U+17E6", "U+17E7", "U+17E8",
   "U+17E9", "U+1810", "U+1811", "U+1812", "U+1813", "U+1814", "U+1815",
   "U+1816", "U+1817", "U+1818", "U+1819", "U+1946", "U+1947", "U+1948",
   "U+1949", "U+194A", "U+194B", "U+194C", "U+194D", "U+194E", "U+194F",
   "U+19D0", "U+19D1", "U+19D2", "U+19D3", "U+19D4", "U+19D5", "U+19D6",
   "U+19D7", "U+19D8", "U+19D9", "U+1A80", "U+1A81", "U+1A82", "U+1A83",
   "U+1A84", "U+1A85", "U+1A86", "U+1A87", "U+1A88", "U+1A89", "U+1A90",
   "U+1A91", "U+1A92", "U+1A93", "U+1A94", "U+1A95", "U+1A96", "U+1A97",
   "U+1A98", "U+1A99", "U+1B50", "U+1B51", "U+1B52", "U+1B53", "U+1B54",
   "U+1B55", "U+1B56", "U+1B57", "U+1B58", "U+1B59", "U+1BB0", "U+1BB1",
   "U+1BB2", "U+1BB3", "U+1BB4", "U+1BB5", "U+1BB6", "U+1BB7", "U+1BB8",
   "U+1BB9", "U+1C40", "U+1C41", "U+1C42", "U+1C43", "U+1C44", "U+1C45",
   "U+1C46", "U+1C47", "U+1C48", "U+1C49", "U+1C50", "U+1C51", "U+1C52",
   "U+1C53", "U+1C54", "U+1C55", "U+1C56", "U+1C57", "U+1C58", "U+1C59",
   "U+A620", "U+A621", "U+A622", "U+A623", "U+A624", "U+A625", "U+A626",
   "U+A627", "U+A628", "U+A629", "U+A8D0", "U+A8D1", "U+A8D2", "U+A8D3",
   "U+A8D4", "U+A8D5", "U+A8D6", "U+A8D7", "U+A8D8", "U+A8D9", "U+A900",
   "U+A901", "U+A902", "U+A903", "U+A904", "U+A905", "U+A906", "U+A907",
   "U+A908", "U+A909", "U+A9D0", "U+A9D1", "U+A9D2", "U+A9D3", "U+A9D4",
   "U+A9D5", "U+A9D6", "U+A9D7", "U+A9D8", "U+A9D9", "U+A9F0", "U+A9F1",
   "U+A9F2", "U+A9F3", "U+A9F4", "U+A9F5", "U+A9F6", "U+A9F7", "U+A9F8",
   "U+A9F9", "U+AA50", "U+AA51", "U+AA52", "U+AA53", "U+AA54", "U+AA55",
   "U+AA56", "U+AA57", "U+AA58", "U+AA59", "U+ABF0", "U+ABF1", "U+ABF2",
   "U+ABF3", "U+ABF4", "U+ABF5", "U+ABF6", "U+ABF7", "U+ABF8", "U+ABF9",
   "U+FF10", "U+FF11", "U+FF12", "U+FF13", "U+FF14", "U+FF15", "U+FF16",
   "U+FF17", "U+FF18", "U+FF19", "U+104A0", "U+104A1", "U+104A2", "U+104A3",
   "U+104A4", "U+104A5", "U+104A6", "U+104A7", "U+104A8", "U+104A9", "U+10D30",
   "U+10D31", "U+10D32", "U+10D33", "U+10D34", "U+10D35", "U+10D36", "U+10D37",
   "U+10D38", "U+10D39", "U+10D40", "U+10D41", "U+10D42", "U+10D43", "U+10D44",
   "U+10D45", "U+10D46", "U+10D47", "U+10D48", "U+10D49", "U+11066", "U+11067",
   "U+11068", "U+11069", "U+1106A", "U+1106B", "U+1106C", "U+1106D", "U+1106E",
   "U+1106F", "U+110F0", "U+110F1", "U+110F2", "U+110F3", "U+110F4", "U+110F5",
   "U+110F6", "U+110F7", "U+110F8", "U+110F9", "U+11136", "U+11137", "U+11138",
   "U+11139", "U+1113A", "U+1113B", "U+1113C", "U+1113D", "U+1113E", "U+1113F",
   "U+111D0", "U+111D1", "U+111D2", "U+111D3", "U+111D4", "U+111D5", "U+111D6",
   "U+111D7", "U+111D8", "U+111D9", "U+112F0", "U+112F1", "U+112F2", "U+112F3",
   "U+112F4", "U+112F5", "U+112F6", "U+112F7", "U+112F8", "U+112F9", "U+11450",
   "U+11451", "U+11452", "U+11453", "U+11454", "U+11455", "U+11456", "U+11457",
   "U+11458", "U+11459", "U+114D0", "U+114D1", "U+114D2", "U+114D3", "U+114D4",
   "U+114D5", "U+114D6", "U+114D7", "U+114D8", "U+114D9", "U+11650", "U+11651",
   "U+11652", "U+11653", "U+11654", "U+11655", "U+11656", "U+11657", "U+11658",
   "U+11659", "U+116C0", "U+116C1", "U+116C2", "U+116C3", "U+116C4", "U+116C5",
   "U+116C6", "U+116C7", "U+116C8", "U+116C9", "U+116D0", "U+116D1", "U+116D2",
   "U+116D3", "U+116D4", "U+116D5", "U+116D6", "U+116D7", "U+116D8", "U+116D9",
   "U+116DA", "U+116DB", "U+116DC", "U+116DD", "U+116DE", "U+116DF", "U+116E0",
   "U+116E1", "U+116E2", "U+116E3", "U+11730", "U+11731", "U+11732", "U+11733",
   "U+11734", "U+11735", "U+11736", "U+11737", "U+11738", "U+11739", "U+118E0",
   "U+118E1", "U+118E2", "U+118E3", "U+118E4", "U+118E5", "U+118E6", "U+118E7",
   "U+118E8", "U+118E9", "U+11950", "U+11951", "U+11952", "U+11953", "U+11954",
   "U+11955", "U+11956", "U+11957", "U+11958", "U+11959", "U+11BF0", "U+11BF1",
   "U+11BF2", "U+11BF3", "U+11BF4", "U+11BF5", "U+11BF6", "U+11BF7", "U+11BF8",
   "U+11BF9", "U+11C50", "U+11C51", "U+11C52", "U+11C53", "U+11C54", "U+11C55",
   "U+11C56", "U+11C57", "U+11C58", "U+11C59", "U+11D50", "U+11D51", "U+11D52",
   "U+11D53", "U+11D54", "U+11D55", "U+11D56", "U+11D57", "U+11D58", "U+11D59",
   "U+11DA0", "U+11DA1", "U+11DA2", "U+11DA3", "U+11DA4", "U+11DA5", "U+11DA6",
   "U+11DA7", "U+11DA8", "U+11DA9", "U+11F50", "U+11F51", "U+11F52", "U+11F53",
   "U+11F54", "U+11F55", "U+11F56", "U+11F57", "U+11F58", "U+11F59", "U+16130",
   "U+16131", "U+16132", "U+16133", "U+16134", "U+16135", "U+16136", "U+16137",
   "U+16138", "U+16139", "U+16A60", "U+16A61", "U+16A62", "U+16A63", "U+16A64",
   "U+16A65", "U+16A66", "U+16A67", "U+16A68", "U+16A69", "U+16AC0", "U+16AC1",
   "U+16AC2", "U+16AC3", "U+16AC4", "U+16AC5", "U+16AC6", "U+16AC7", "U+16AC8",
   "U+16AC9", "U+16B50", "U+16B51", "U+16B52", "U+16B53", "U+16B54", "U+16B55",
   "U+16B56", "U+16B57", "U+16B58", "U+16B59", "U+16D70", "U+16D71", "U+16D72",
   "U+16D73", "U+16D74", "U+16D75", "U+16D76", "U+16D77", "U+16D78", "U+16D79",
   "U+1CCF0", "U+1CCF1", "U+1CCF2", "U+1CCF3", "U+1CCF4", "U+1CCF5", "U+1CCF6",
   "U+1CCF7", "U+1CCF8", "U+1CCF9", "U+1D7CE", "U+1D7CF", "U+1D7D0", "U+1D7D1",
   "U+1D7D2", "U+1D7D3", "U+1D7D4", "U+1D7D5", "U+1D7D6", "U+1D7D7", "U+1D7D8",
   "U+1D7D9", "U+1D7DA", "U+1D7DB", "U+1D7DC", "U+1D7DD", "U+1D7DE", "U+1D7DF",
   "U+1D7E0", "U+1D7E1", "U+1D7E2", "U+1D7E3", "U+1D7E4", "U+1D7E5", "U+1D7E6",
   "U+1D7E7", "U+1D7E8", "U+1D7E9", "U+1D7EA", "U+1D7EB", "U+1D7EC", "U+1D7ED",
   "U+1D7EE", "U+1D7EF", "U+1D7F0", "U+1D7F1", "U+1D7F2", "U+1D7F3", "U+1D7F4",
   "U+1D7F5", "U+1D7F6", "U+1D7F7", "U+1D7F8", "U+1D7F9", "U+1D7FA", "U+1D7FB",
   "U+1D7FC", "U+1D7FD", "U+1D7FE", "U+1D7FF", "U+1E140", "U+1E141", "U+1E142",
   "U+1E143", "U+1E144", "U+1E145", "U+1E146", "U+1E147", "U+1E148", "U+1E149",
   "U+1E2F0", "U+1E2F1", "U+1E2F2", "U+1E2F3", "U+1E2F4", "U+1E2F5", "U+1E2F6",
   "U+1E2F7", "U+1E2F8", "U+1E2F9", "U+1E4F0", "U+1E4F1", "U+1E4F2", "U+1E4F3",
   "U+1E4F4", "U+1E4F5", "U+1E4F6", "U+1E4F7", "U+1E4F8", "U+1E4F9", "U+1E5F1",
   "U+1E5F2", "U+1E5F3", "U+1E5F4", "U+1E5F5", "U+1E5F6", "U+1E5F7", "U+1E5F8",
   "U+1E5F9", "U+1E5FA", "U+1E950", "U+1E951", "U+1E952", "U+1E953", "U+1E954",
   "U+1E955", "U+1E956", "U+1E957", "U+1E958", "U+1E959", "U+1FBF0", "U+1FBF1",
   "U+1FBF2", "U+1FBF3", "U+1FBF4", "U+1FBF5", "U+1FBF6", "U+1FBF7", "U+1FBF8",
   "U+1FBF9" }

DigitVal(c) ==
  CASE c = "0" -> 0 [] c = "1" -> 1 [] c = "2" -> 2 [] c = "3" -> 3
    [] c = "4" -> 4 [] c = "5" -> 5 [] c = "6" -> 6 [] c = "7" -> 7
    [] c = "8" -> 8 [] c = "9" -> 9

RECURSIVE DecVal(_)
DecVal(t) ==
  IF t = << >> THEN 0
  ELSE 10 * DecVal(SubSeq(t, 1, Len(t) - 1)) + DigitVal(t[Len(t)])

\* str::trim: the text without its leading and trailing whitespace.
RECURSIVE trim_start(_)
trim_start(t) ==
  IF t # << >> /\ Head(t) \in Whitespace THEN trim_start(Tail(t)) ELSE t

RECURSIVE trim_end(_)
trim_end(t) ==
  IF t # << >> /\ t[Len(t)] \in Whitespace
  THEN trim_end(SubSeq(t, 1, Len(t) - 1)) ELSE t

\* A trim of the leading whitespace only.
TrimStartOnly(t) == trim_start(t)

trim(t) == trim_end(trim_start(t))

(***************************************************************************)
(* f64 values: a finite number, the negative zero, NaN, or an infinity.    *)
(***************************************************************************)
\* A finite number is v * 1024^e, with v not a multiple of 1024 unless it
\* is 0 (so that a number has one form, and 7 TB needs no integer beyond
\* 32 bits; all the numbers of this model are exact in f64).
RECURSIVE Scaled(_, _)
Scaled(n, e) ==
  IF n = 0 THEN [class |-> "finite", v |-> 0, e |-> 0]
  ELSE IF n % 1024 = 0 THEN Scaled(n \div 1024, e + 1)
  ELSE [class |-> "finite", v |-> n, e |-> e]
F64(n) == Scaled(n, 0)
NegZero == [class |-> "negzero", v |-> 0, e |-> 0]
NaN == [class |-> "nan", v |-> 0, e |-> 0]
Inf(sign) == [class |-> "inf", v |-> sign, e |-> 0]

\* x * 1024^p (p >= 0): the negative zero, NaN and the infinities stay
\* what they are.
Mul(x, p) == IF x.class = "finite" THEN Scaled(x.v, x.e + p) ELSE x

\* The lower-case form of a text, for the letters of "infinity" and "nan".
Lower(t) ==
  [k \in 1..Len(t) |->
     CASE t[k] = "I" -> "i" [] t[k] = "N" -> "n" [] t[k] = "F" -> "f"
       [] t[k] = "T" -> "t" [] t[k] = "Y" -> "y" [] t[k] = "A" -> "a"
       [] OTHER -> t[k]]

\* str::parse::<f64> on a text without ".", "e", "E" and "_" (no
\* fractions or exponents in this model): an optional sign, then a
\* non-empty run of the digits "0" to "9" (its decimal value, and the
\* negative zero for a zero after "-"), or "inf", "infinity" or "nan" in
\* any case; anything else is an error.
ParseF64(t) ==
  LET signed == t # << >> /\ Head(t) \in {"+", "-"}
      sign == IF t # << >> /\ Head(t) = "-" THEN -1 ELSE 1
      body == IF signed THEN Tail(t) ELSE t
  IN  IF body # << >> /\ \A k \in 1..Len(body) : body[k] \in Digits
      THEN [ok |-> TRUE,
            val |-> IF sign = -1 /\ DecVal(body) = 0 THEN NegZero
                    ELSE F64(sign * DecVal(body))]
      ELSE IF Lower(body) \in {<<"i", "n", "f">>,
                               <<"i", "n", "f", "i", "n", "i", "t", "y">>}
      THEN [ok |-> TRUE, val |-> Inf(sign)]
      ELSE IF Lower(body) = <<"n", "a", "n">>
      THEN [ok |-> TRUE, val |-> NaN]
      ELSE [ok |-> FALSE, val |-> NaN]

(***************************************************************************)
(* Regular expressions, as far as the configured patterns need them:       *)
(* a literal character, \d, a character class and its negation, ".", a     *)
(* named group, an optional part (?), a greedy repetition (star), an      *)
(* alternation (|), the end of the text ($), and a concatenation.  Alts    *)
(* lists the ways a node matches at pos in the order the regex crate       *)
(* prefers them (leftmost-first: the optional part first, then its         *)
(* absence; the longer repetition first; the alternatives left to right).  *)
(* A capture is <<from, to>> (to exclusive), or << >> for a group that did *)
(* not take part in the match.                                             *)
(***************************************************************************)
Chr(c) == [t |-> "chr", c |-> c]
Digit == [t |-> "digit"]
Group(name, sub) == [t |-> "cap", name |-> name, sub |-> sub]
Opt(sub) == [t |-> "opt", sub |-> sub]
Cat(subs) == [t |-> "cat", subs |-> subs]
Set(cs) == [t |-> "set", cs |-> cs]
NotSet(cs) == [t |-> "nset", cs |-> cs]
AnyChar == NotSet({"\n"})
Star(sub) == [t |-> "star", sub |-> sub]
Plus(sub) == Cat(<< sub, Star(sub) >>)
Alt(subs) == [t |-> "alt", subs |-> subs]
Lit(text) == Cat([k \in 1..Len(text) |-> Chr(text[k])])
EndOfText == [t |-> "end"]

RECURSIVE capture_names(_)
capture_names(node) ==
  CASE node.t = "cap" -> {node.name} \cup capture_names(node.sub)
    [] node.t \in {"opt", "star"} -> capture_names(node.sub)
    [] node.t \in {"cat", "alt"} ->
         UNION {capture_names(node.subs[k]) : k \in 1..Len(node.subs)}
    [] OTHER -> {}

RECURSIVE Alts(_, _, _, _)
RECURSIVE AltsCat(_, _, _)
RECURSIVE AltsEach(_, _, _)
RECURSIVE AltsAlt(_, _, _, _)
Alts(node, text, pos, caps) ==
  CASE node.t = "chr" ->
         IF pos <= Len(text) /\ text[pos] = node.c
         THEN << [pos |-> pos + 1, caps |-> caps] >> ELSE << >>
    [] node.t = "digit" ->
         IF pos <= Len(text) /\ text[pos] \in DecimalNumber
         THEN << [pos |-> pos + 1, caps |-> caps] >> ELSE << >>
    [] node.t = "cap" ->
         LET inner == Alts(node.sub, text, pos, caps)
         IN  [k \in 1..Len(inner) |->
                [pos |-> inner[k].pos,
                 caps |-> [inner[k].caps EXCEPT
                             ![node.name] = <<pos, inner[k].pos>>]]]
    [] node.t = "opt" ->
         Alts(node.sub, text, pos, caps) \o << [pos |-> pos, caps |-> caps] >>
    [] node.t = "cat" ->
         AltsCat(node.subs, text, << [pos |-> pos, caps |-> caps] >>)
    [] node.t = "set" ->
         IF pos <= Len(text) /\ text[pos] \in node.cs
         THEN << [pos |-> pos + 1, caps |-> caps] >> ELSE << >>
    [] node.t = "nset" ->
         IF pos <= Len(text) /\ text[pos] \notin node.cs
         THEN << [pos |-> pos + 1, caps |-> caps] >> ELSE << >>
    [] node.t = "star" ->
         LET once == SelectSeq(Alts(node.sub, text, pos, caps),
                               LAMBDA a : a.pos > pos)
         IN  AltsEach(node, text, once) \o << [pos |-> pos, caps |-> caps] >>
    [] node.t = "alt" -> AltsAlt(node.subs, text, pos, caps)
    [] node.t = "end" ->
         IF pos = Len(text) + 1
         THEN << [pos |-> pos, caps |-> caps] >> ELSE << >>

\* The matches of the nodes subs, one after the other, from each of starts.
AltsCat(subs, text, starts) ==
  IF subs = << >> THEN starts
  ELSE AltsCat(Tail(subs), text, AltsEach(Head(subs), text, starts))

AltsEach(node, text, starts) ==
  IF starts = << >> THEN << >>
  ELSE Alts(node, text, Head(starts).pos, Head(starts).caps)
         \o AltsEach(node, text, Tail(starts))

\* The matches of the alternatives subs at pos, left to right.
AltsAlt(subs, text, pos, caps) ==
  IF subs = << >> THEN << >>
  ELSE Alts(Head(subs), text, pos, caps) \o AltsAlt(Tail(subs), text, pos, caps)

NoCaptures(regex) == [n \in capture_names(regex) |-> << >>]

\* Regex::captures: the match at the leftmost position that has one
\* (Some), or None.
RECURSIVE captures_from(_, _, _)
captures_from(regex, text, pos) ==
  IF pos > Len(text) + 1 THEN [some |-> FALSE, caps |-> NoCaptures(regex)]
  ELSE LET alts == Alts(regex, text, pos, NoCaptures(regex))
       IN  IF alts # << >> THEN [some |-> TRUE, caps |-> Head(alts).caps]
           ELSE captures_from(regex, text, pos + 1)

captures(regex, text) == captures_from(regex, text, 1)

\* The leftmost match at or after pos: where it starts and ends, and its
\* captures.
RECURSIVE find_at(_, _, _)
find_at(regex, text, pos) ==
  IF pos > Len(text) + 1
  THEN [some |-> FALSE, from |-> pos, to |-> pos, caps |-> NoCaptures(regex)]
  ELSE LET alts == Alts(regex, text, pos, NoCaptures(regex))
       IN  IF alts # << >>
           THEN [some |-> TRUE, from |-> pos, to |-> Head(alts).pos,
                 caps |-> Head(alts).caps]
           ELSE find_at(regex, text, pos + 1)

\* The first match only.
captures_once(regex, text) ==
  LET m == find_at(regex, text, 1)
  IN  IF m.some THEN << m.caps >> ELSE << >>

\* Regex::captures_iter: the successive non-overlapping matches, each
\* searched from the end of the one before (one further on after an empty
\* match).
RECURSIVE captures_iter_from(_, _, _)
captures_iter_from(regex, text, pos) ==
  LET m == find_at(regex, text, pos)
  IN  IF ~m.some THEN << >>
      ELSE << m.caps >>
             \o captures_iter_from(regex, text,
                                   IF m.to > m.from THEN m.to ELSE m.to + 1)

captures_iter(regex, text) == captures_iter_from(regex, text, 1)

(***************************************************************************)
(* DigestKind and ItemResult (item.rs).                                    *)
(***************************************************************************)
RawKind == [type |-> "Raw"]
RegexKind(regex) == [type |-> "Regex", regex |-> regex]
PluginKind == [type |-> "MonitoringPlugin"]

EmptyValues == [m \in {} |-> NaN]

\* The values the Raw arm inserts (item.rs:179-184): the trimmed text
\* parsed as f64 under "<key>.parsed", nothing when it does not parse.
RawValuesOrNaN(result, itemkey) ==
  [m \in {itemkey \o <<".", "p", "a", "r", "s", "e", "d">>} |->
     ParseF64(result).val]

RawValues(result, itemkey) ==
  IF ParseF64(result).ok
  THEN [m \in {itemkey \o <<".", "p", "a", "r", "s", "e", "d">>} |->
          ParseF64(result).val]
  ELSE EmptyValues

\* The values the Regex arm inserts: one per named group of the pattern,
\* the captured text parsed as f64, NaN when it does not parse.
RegexValues(regex, result, itemkey) ==
  LET c == captures(regex, result)
      val(cn) == ParseF64(SubSeq(result, c.caps[cn][1], c.caps[cn][2] - 1)).val
  IN  IF c.some
      THEN [m \in {itemkey \o <<".">> \o cn : cn \in capture_names(regex)} |->
              val(SubSeq(m, Len(itemkey) + 2, Len(m)))]
      ELSE EmptyValues

\* A first pattern that asks for the status token:
\* (?P<status>OK|WARNING|CRITICAL|UNKNOWN)[^\|]*\|(?P<performance>.*)$
OutputRegexStatusRequired ==
  Cat(<< Group(<<"s", "t", "a", "t", "u", "s">>,
               Alt(<< Lit(<<"O", "K">>),
                      Lit(<<"W", "A", "R", "N", "I", "N", "G">>),
                      Lit(<<"C", "R", "I", "T", "I", "C", "A", "L">>),
                      Lit(<<"U", "N", "K", "N", "O", "W", "N">>) >>)),
         Star(NotSet({"|"})),
         Chr("|"),
         Group(<<"p", "e", "r", "f", "o", "r", "m", "a", "n", "c", "e">>,
               Star(AnyChar)),
         EndOfText >>)

\* monitoring_plugin_regex (item.rs:146-173), first pattern:
\* ((?P<status>OK|WARNING|CRITICAL|UNKNOWN)[^\|]*)?\|(?P<performance>.*)$
OutputRegex ==
  Cat(<< Opt(Cat(<< Group(<<"s", "t", "a", "t", "u", "s">>,
                          Alt(<< Lit(<<"O", "K">>),
                                 Lit(<<"W", "A", "R", "N", "I", "N", "G">>),
                                 Lit(<<"C", "R", "I", "T", "I", "C", "A", "L">>),
                                 Lit(<<"U", "N", "K", "N", "O", "W", "N">>) >>)),
                    Star(NotSet({"|"})) >>)),
         Chr("|"),
         Group(<<"p", "e", "r", "f", "o", "r", "m", "a", "n", "c", "e">>,
               Star(AnyChar)),
         EndOfText >>)

\* The characters from "@" to "~" (the grave accent by its code point).
AtToTilde ==
  {"@", "A", "B", "C", "D", "E", "F", "G", "H", "I", "J", "K", "L", "M", "N",
   "O", "P", "Q", "R", "S", "T", "U", "V", "W", "X", "Y", "Z", "[", "\\", "]",
   "^", "_", "U+0060", "a", "b", "c", "d", "e", "f", "g", "h", "i", "j", "k", "l",
   "m", "n", "o", "p", "q", "r", "s", "t", "u", "v", "w", "x", "y", "z", "{",
   "|", "}", "~"}

\* [-\.\d]+ and [@-~\.\d]+
NumberText == Plus(Set({"-", "."} \cup DecimalNumber))
RangeText == Plus(Set(AtToTilde \cup {"."} \cup DecimalNumber))

\* monitoring_plugin_regex, second pattern:
\* (?P<label>[^\s=][^=]*)=(?P<value>[-\.\d]+)
\* (?P<unit>s|ms|ns|us|B|KB|MB|GB|TB|%|c)?
\* (;(?P<warn>[@-~\.\d]+))?(;(?P<crit>[@-~\.\d]+))?
\* (;(?P<min>[-\.\d]+))?(;(?P<max>[-\.\d]+))?;?
PerformanceRegex ==
  Cat(<< Group(<<"l", "a", "b", "e", "l">>,
               Cat(<< NotSet(Whitespace \cup {"="}), Star(NotSet({"="})) >>)),
         Chr("="),
         Group(<<"v", "a", "l", "u", "e">>, NumberText),
         Opt(Group(<<"u", "n", "i", "t">>,
                   Alt(<< Lit(<<"s">>), Lit(<<"m", "s">>), Lit(<<"n", "s">>),
                          Lit(<<"u", "s">>), Lit(<<"B">>), Lit(<<"K", "B">>),
                          Lit(<<"M", "B">>), Lit(<<"G", "B">>),
                          Lit(<<"T", "B">>), Lit(<<"%">>), Lit(<<"c">>) >>))),
         Opt(Cat(<< Chr(";"), Group(<<"w", "a", "r", "n">>, RangeText) >>)),
         Opt(Cat(<< Chr(";"), Group(<<"c", "r", "i", "t">>, RangeText) >>)),
         Opt(Cat(<< Chr(";"), Group(<<"m", "i", "n">>, NumberText) >>)),
         Opt(Cat(<< Chr(";"), Group(<<"m", "a", "x">>, NumberText) >>)),
         Opt(Chr(";")) >>)

\* HashMap::insert: the entry for k is v, whatever it was.
Insert(values, k, v) ==
  [m \in DOMAIN values \cup {k} |-> IF m = k THEN v ELSE values[m]]

\* The text of a capture.
Slice(text, span) == SubSeq(text, span[1], span[2] - 1)

\* The value of the status token.
StatusValue(status) ==
  CASE status = <<"O", "K">> -> F64(0)
    [] status = <<"W", "A", "R", "N", "I", "N", "G">> -> F64(1)
    [] status = <<"C", "R", "I", "T", "I", "C", "A", "L">> -> F64(2)
    [] status = <<"U", "N", "K", "N", "O", "W", "N">> -> F64(3)

\* The factor of a unit (item.rs:238-244), as the power p of the factor
\* 1024^p; unit is << >> for none.
ValueFactor(unit) ==
  CASE unit = <<"K", "B">> -> 1
    [] unit = <<"M", "B">> -> 2
    [] unit = <<"G", "B">> -> 3
    [] unit = <<"T", "B">> -> 4
    [] OTHER -> 0

Extras == << <<"w", "a", "r", "n">>, <<"c", "r", "i", "t">>,
             <<"m", "i", "n">>, <<"m", "a", "x">> >>

\* The inserts of the extras of one performance entry, were they left
\* unscaled.
RECURSIVE ExtraValuesUnscaled(_, _, _, _, _, _)
ExtraValuesUnscaled(values, perf, caps, prefix, factor, n) ==
  IF n > Len(Extras) THEN values
  ELSE LET span == caps[Extras[n]]
           p == IF span = << >> THEN [ok |-> FALSE, val |-> NaN]
                ELSE ParseF64(Slice(perf, span))
       IN  ExtraValuesUnscaled(IF p.ok
                               THEN Insert(values, prefix \o <<".">> \o Extras[n],
                                           p.val)
                               ELSE values,
                               perf, caps, prefix, factor, n + 1)

\* The inserts of the extras of one performance entry, from the n-th on
\* (item.rs:247-257): one that did not take part or does not parse is left
\* out.
RECURSIVE ExtraValues(_, _, _, _, _, _)
ExtraValues(values, perf, caps, prefix, factor, n) ==
  IF n > Len(Extras) THEN values
  ELSE LET span == caps[Extras[n]]
           p == IF span = << >> THEN [ok |-> FALSE, val |-> NaN]
                ELSE ParseF64(Slice(perf, span))
       IN  ExtraValues(IF p.ok
                       THEN Insert(values, prefix \o <<".">> \o Extras[n],
                                   Mul(p.val, factor))
                       ELSE values,
                       perf, caps, prefix, factor, n + 1)

\* The inserts of one performance entry, were an entry whose value does
\* not parse left out.
EntryValuesSkipping(values, perf, caps, itemkey) ==
  LET label == Slice(perf, caps[<<"l", "a", "b", "e", "l">>])
      p == ParseF64(Slice(perf, caps[<<"v", "a", "l", "u", "e">>]))
      unit == IF caps[<<"u", "n", "i", "t">>] = << >> THEN << >>
              ELSE Slice(perf, caps[<<"u", "n", "i", "t">>])
      factor == ValueFactor(unit)
      prefix == itemkey \o <<".">> \o label
  IN  IF p.ok
      THEN ExtraValues(Insert(values, prefix, Mul(p.val, factor)),
                       perf, caps, prefix, factor, 1)
      ELSE values

\* The inserts of one performance entry (item.rs:230-257).
EntryValues(values, perf, caps, itemkey) ==
  LET label == Slice(perf, caps[<<"l", "a", "b", "e", "l">>])
      p == ParseF64(Slice(perf, caps[<<"v", "a", "l", "u", "e">>]))
      value == IF p.ok THEN p.val ELSE NaN
      unit == IF caps[<<"u", "n", "i", "t">>] = << >> THEN << >>
              ELSE Slice(perf, caps[<<"u", "n", "i", "t">>])
      factor == ValueFactor(unit)
      prefix == itemkey \o <<".">> \o label
  IN  ExtraValues(Insert(values, prefix, Mul(value, factor)),
                  perf, caps, prefix, factor, 1)

\* The inserts of the performance entries, in their order.
RECURSIVE PerfValues(_, _, _, _)
PerfValues(values, perf, entries, itemkey) ==
  IF entries = << >> THEN values
  ELSE PerfValues(EntryValues(values, perf, Head(entries), itemkey),
                  perf, Tail(entries), itemkey)

\* The values the MonitoringPlugin arm inserts (item.rs:207-261).
PluginValues(result, itemkey) ==
  LET om == captures(OutputRegex, result)
      status == om.caps[<<"s", "t", "a", "t", "u", "s">>]
      perfspan == om.caps[<<"p", "e", "r", "f", "o", "r", "m", "a", "n", "c", "e">>]
      withStatus ==
        IF status = << >> THEN EmptyValues
        ELSE Insert(EmptyValues, itemkey \o <<".", "s", "t", "a", "t", "u", "s">>,
                    StatusValue(Slice(result, status)))
  IN  IF ~om.some THEN EmptyValues
      ELSE IF perfspan = << >> THEN withStatus
      ELSE LET perf == Slice(result, perfspan)
           IN  PerfValues(withStatus, perf,
                          captures_iter(PerformanceRegex, perf), itemkey)

\* captures[cn] panics for a named group that did not take part in the
\* match (item.rs:193).
DigestPanics(kind, raw) ==
  /\ kind.type = "Regex"
  /\ LET c == captures(kind.regex, trim(raw))
     IN  c.some /\ \E cn \in capture_names(kind.regex) : c.caps[cn] = << >>

\* DigestKind::digest, when it returns.
digest(kind, raw, itemkey, time) ==
  LET result == trim(raw)
      values ==
        CASE kind.type = "Raw" -> RawValues(result, itemkey)
          [] kind.type = "Regex" -> RegexValues(kind.regex, result, itemkey)
          [] kind.type = "MonitoringPlugin" -> PluginValues(result, itemkey)
  IN  [time |-> time, key |-> itemkey, raw |-> result, values |-> values]

NoResult == [time |-> 0, key |-> << >>, raw |-> << >>, values |-> EmptyValues]

(***************************************************************************)
(* conf::load (conf.rs:80-121).  A configuration text is taken as the      *)
(* items it spells, each with its key and its interval; an interval below  *)
(* 0 stands for a text that toml::de::from_str rejects (interval is u64).  *)
(***************************************************************************)
\* The order of two keys as strings: by their characters, a prefix first.
CharRank(c) == CASE c = "/" -> 0 [] c = "_" -> 1 [] c = "a" -> 2 [] c = "b" -> 3
RECURSIVE KeyLessEq(_, _)
KeyLessEq(x, y) ==
  IF x = << >> THEN TRUE
  ELSE IF y = << >> THEN FALSE
  ELSE IF Head(x) # Head(y) THEN CharRank(Head(x)) < CharRank(Head(y))
  ELSE KeyLessEq(Tail(x), Tail(y))

\* keys with k put in before the first key that is greater.
RECURSIVE InsertSorted(_, _)
InsertSorted(keys, k) ==
  IF keys = << >> THEN <<k>>
  ELSE IF KeyLessEq(Head(keys), k) THEN <<Head(keys)>> \o InsertSorted(Tail(keys), k)
  ELSE <<k>> \o keys

\* The keys as they stand, unsorted.
Unsorted(keys) == keys

\* Itertools::sorted
RECURSIVE sorted(_)
sorted(keys) ==
  IF keys = << >> THEN << >>
  ELSE InsertSorted(sorted(SubSeq(keys, 1, Len(keys) - 1)), keys[Len(keys)])

\* tuple_windows and filter_map (conf.rs:96-97): the first of every two
\* neighbours that are equal.
Duplicates(keys) ==
  LET sk == sorted(keys)
      at == {k \in 1..(Len(sk) - 1) : sk[k] = sk[k + 1]}
  IN  [k \in 1..Cardinality(at) |->
         sk[CHOOSE j \in at : Cardinality({h \in at : h < j}) = k - 1]]

\* conf.rs:106-111
IntervalTooSmall(items) ==
  SelectSeq(items, LAMBDA item : item.interval = 0)

LoadError(why) == [state |-> "err", why |-> why, items |-> << >>]

load(items) ==
  IF \E k \in 1..Len(items) : items[k].interval < 0 THEN LoadError("toml")
  ELSE IF Duplicates([k \in 1..Len(items) |-> items[k].key]) # << >>
  THEN LoadError("duplicate keys")
  ELSE IF IntervalTooSmall(items) # << >> THEN LoadError("interval")
  ELSE [state |-> "ok", why |-> "", items |-> items]

\* The configurations given to load on its own.
ConfigKeys == { <<"a">>, <<"b">>, <<"a", "/", "b">>, <<"a", "_", "b">> }
ConfigIntervals == {-1, 0, 1}
RECURSIVE ConfigsOfLen(_)
ConfigsOfLen(n) ==
  IF n = 0 THEN {<< >>}
  ELSE {<<[key |-> k, interval |-> i]>> \o c :
          k \in ConfigKeys, i \in ConfigIntervals, c \in ConfigsOfLen(n - 1)}
Configs == UNION {ConfigsOfLen(n) : n \in 0..MaxItems}

(***************************************************************************)
(* The configuration the model runs.                                       *)
(***************************************************************************)
Items == {1, 2}
ItemKey(i) == IF i = 1 THEN <<"a">> ELSE <<"b">>
Interval(i) == i

\* (?P<v>\d)?x
OptGroupRegex == Cat(<< Opt(Group(<<"v">>, Digit)), Chr("x") >>)

\* (?P<d>\d)|(?P<x>x)
AltGroupRegex ==
  Alt(<< Group(<<"d">>, Digit), Group(<<"x">>, Chr("x")) >>)

\* (?P<v>\d)?(?P<w>x)
TwoGroupRegex ==
  Cat(<< Opt(Group(<<"v">>, Digit)), Group(<<"w">>, Chr("x")) >>)

\* The digest of each item: the default (Raw) or the regex above.
ItemDigests ==
  { [i \in Items |-> IF i \in S THEN RegexKind(OptGroupRegex) ELSE RawKind] :
      S \in {{1, 2}} }

\* What a source execution can return as text.
RawOutputs == { <<" ", "7", "x">>, <<"x">>, <<"7">> }

\* The texts a call of digest on its own is given: every text of at most
\* MaxLen characters of TextChars, and the lines of a monitoring plugin: a
\* message, with or without "|" after it, and at most MaxEntries
\* performance entries with a blank between them.
TextChars == {" ", "7", "x", "-"}
RECURSIVE TextsOfLen(_)
TextsOfLen(n) ==
  IF n = 0 THEN {<< >>}
  ELSE {<<c>> \o t : c \in TextChars, t \in TextsOfLen(n - 1)}
\* Texts the number parser accepts that are no digits.
NumberWords ==
  { <<"i", "n", "f">>,
    <<"-", "I", "n", "f", "i", "n", "i", "t", "y">>,
    <<" ", "+", "i", "n", "f", " ">>,
    <<"N", "a", "N">>,
    <<"+", "7">>,
    <<"-", "0">>,
    <<"-", "0", "0">>,
    <<"+", "0">> }
\* Texts with whitespace other than the blank: a line that ends in CR LF,
\* a form feed, a vertical tab and a no-break space, and two performance
\* entries with a carriage return between them.
LineEndTexts ==
  { <<"7", "\r", "\n">>,
    <<"\f", "7">>,
    <<"U+00A0", "7", "U+000B">>,
    <<"O", "K", "|", "a", "=", "7", "\r", "b", "=", "8">> }
\* Texts with a decimal digit other than "0" to "9" (U+0663, the
\* Arabic-Indic three, and U+FF17, the fullwidth seven), and a performance
\* entry with a negative zero.
WideDigitTexts ==
  { <<"U+0663">>,
    <<"U+0663", "x">>,
    <<"x", "U+0663">>,
    <<"U+FF17", "7">>,
    <<"|", "a", "=", "U+0663", ";", "U+FF17">>,
    <<"|", "a", "=", "-", "0", "K", "B", ";", "-", "0">> }
Texts ==
  UNION {TextsOfLen(n) : n \in 0..MaxLen} \cup NumberWords \cup LineEndTexts
    \cup WideDigitTexts

Messages ==
  { << >>,
    <<"x", " ">>,
    <<"O", "K", " ">>,
    <<"W", "A", "R", "N", "I", "N", "G">>,
    <<"C", "R", "I", "T", "I", "C", "A", "L", " ", "x">>,
    <<"U", "N", "K", "N", "O", "W", "N", " ">>,
    <<"o", "k", " ">>,
    <<"x", " ", "O", "K", " ", "-", " ", "y", ":", " ", "3", ",", " ", "4">> }
Entries ==
  { <<"a", "=", "7">>,
    <<"a", "=", "-">>,
    <<"a", "=", "x">>,
    <<"b", "=", "7", "K", "B", ";", "7", ";", "x", ";", "-", ";", "7">>,
    <<"c", "=", "1", "M", "B", ";", "1">>,
    <<"d", "=", "3", "G", "B", ";", ";", "2">>,
    <<"e", "=", "7", "T", "B", ";", "1", ";", "1", ";", "1", ";", "1">>,
    <<"f", "=", "7", "s", ";", "i", "n", "f">>,
    <<"p", "=", "3", ";", "1", "0", ";", "1", "5", ";", "0", ";">>,
    <<"q", "=", "4", ";", "5", ";", "6", ";", "0", ";">> }
RECURSIVE EntryLists(_)
EntryLists(n) ==
  IF n = 0 THEN {<< >>}
  ELSE {<< >>} \cup Entries
         \cup {e \o <<" ">> \o l : e \in Entries, l \in EntryLists(n - 1) \ {<< >>}}
PluginTexts ==
  {m \o sep \o l :
     m \in Messages, sep \in {<< >>, <<"|">>}, l \in EntryLists(MaxEntries)}

DigestKinds ==
  {RawKind, RegexKind(OptGroupRegex), RegexKind(AltGroupRegex), PluginKind}
\* The line of the test monitoring_plugin_regex_match (item.rs:289), with
\* whole numbers.
CheckLoad ==
  <<"L", "O", "A", "D", " ", "O", "K", " ", "-", " ", "l", "o", "a", "d", " ", "a", "v", "e", "r", "a", "g", "e", ":", " ", "3", ",", " ", "4", ",", " ", "2", "|">>
       \o <<"l", "o", "a", "d", "1", "=", "3", ";", "1", "0", ";", "1", "5", ";", "0", ";", " ", "l", "o", "a", "d", "5", "=", "4", ";", "5", ";", "6", ";", "0", ";", " ">>
       \o <<"l", "o", "a", "d", "1", "5", "=", "2", ";", "3", ";", "4", ";", "0", ";">>
DigestInputs ==
  {[kind |-> k, raw |-> t, itemkey |-> ItemKey(1)] :
     k \in DigestKinds, t \in Texts \cup {CheckLoad}}
    \cup {[kind |-> PluginKind, raw |-> t, itemkey |-> ItemKey(1)] :
            t \in PluginTexts}

Sinks == {1, 2}
SinkType(s) == IF s = 1 THEN "file" ELSE "influx"

\* The flags of the sinks: every combination of the InfluxDB sink's two
\* flags, and both values of the File sink's one (which has no
\* use_raw_as_fallback).
SinkFlags ==
  { [s \in Sinks |->
       [always_write_raw |-> IF SinkType(s) = "file" THEN fa ELSE ia,
        use_raw_as_fallback |-> SinkType(s) = "influx" /\ fa]] :
      fa \in BOOLEAN, ia \in BOOLEAN }

(***************************************************************************)
(* State.                                                                  *)
(***************************************************************************)
VARIABLES
  now,        \* the clock, in seconds
  digestOf,   \* item -> its DigestKind (configuration)
  pc,         \* item -> "new" (task not polled yet), "idle" (in
              \*   interval.tick().await), "executing" (in
              \*   produce_result(..).await), "gone" (the task panicked),
              \*   "absent" (not in the configuration)
  deadline,   \* item -> when its interval timer fires next
  bus,        \* the broadcast channel: buffer (the retained messages, oldest
              \*   first), tail (the number of messages sent so far) and
              \*   capacity (the most messages it retains)
  always_write_raw,     \* sink -> flag (configuration)
  use_raw_as_fallback,  \* sink -> flag (configuration; InfluxDB only)
  spc,        \* sink -> "recv" (in receiver.recv().await), "raw" (in
              \*   write_raw_value(..).await), "values" (in
              \*   write_values(..).await), "done" (left the loop),
              \*   "absent" (not in the configuration)
  next,       \* sink -> the position its receiver reads next
  cur,        \* sink -> the ItemResult it received last
  curPos,     \* sink -> the position cur was sent at (-1: none yet)
  todo,       \* sink -> the samples of cur that write_values has not
              \*   handed to a write yet
  pending,    \* sink -> the writes of the File sink whose call returned Ok
              \*   and that the blocking pool has not run yet
  store,      \* sink -> the writes that reached its backend, in order
  \* What happened so far, for the properties:
  startAt,    \* item -> when its task started
  nTicks,     \* item -> ticks of its interval so far
  lastTickAt, \* item -> when the last of them fired
  inflight,   \* item -> executions started and not finished
  nFail,      \* item -> executions that failed
  nSend,      \* item -> calls of sender.send
  onTime,     \* item -> every finished execution took less than the interval
  sentLog,    \* every message the bus accepted, in publish order
  lastEv,     \* sink -> what its last recv returned
  skipped,    \* sink -> messages it was told it missed, in total
  rawCalled,  \* sink -> write_raw_value was called for cur
  \* digest called on its own:
  din,        \* the call: the DigestKind, the text and the item key
  dout,       \* what the call came to: not made yet, a Result, or a panic
  \* conf::load called on its own:
  cfg,        \* the items of the configuration text
  loaded,     \* what load returned: nothing yet, a Config, or an error
  \* The write functions of FileOutput called on their own:
  files,      \* file name -> the text of the file (the base directory)
  wlog,       \* the calls that returned Ok: metric key and line, in order
  inpool,     \* the lines of those calls that the blocking pool has not
              \*   written yet
  writing,    \* the call that has not returned: where it is ("open": in
              \*   open_file(..).await, "write": in write_all(..).await,
              \*   "none": no call), its metric key and its line
  \* The thread-based scheduler app::start:
  heap,       \* conf.items: the entries (item, next_time) of the queue
  instant,    \* Instant::now(), in seconds
  apc,        \* "run" (in the inner loop), "outer" (after its break),
              \*   "gone" (start panicked), "absent" (not running)
  spawned     \* the worker threads spawned: item and cur_time, in order
  
itemVars == <<digestOf, pc, deadline, startAt, nTicks, lastTickAt, inflight,
              nFail, nSend, onTime>>
busVars == <<bus, sentLog>>
sinkVars == <<always_write_raw, use_raw_as_fallback, spc, next, cur, curPos,
              todo, pending, store, lastEv, skipped, rawCalled>>
digestVars == <<din, dout>>
loadVars == <<cfg, loaded>>
\* What only the operations called on their own change.
fileVars == <<files, wlog, inpool, writing>>
appVars == <<heap, instant, apc, spawned>>
unitVars == <<digestVars, loadVars, fileVars, appVars>>
vars == <<now, itemVars, busVars, sinkVars, unitVars>>

NoEvent == [kind |-> "none", pos |-> 0, count |-> 0, tail |-> 0]

\* The state when the tasks have been spawned, for a configuration with
\* the items IS, the sinks SS, one of the flag settings FS, one of the
\* digest settings DS and a channel of capacity N: every sink has
\* subscribed, no item task has run yet.
PipelineInitWith(IS, SS, FS, DS, N) ==
  /\ now = 0
  /\ digestOf \in DS
  /\ pc = [i \in Items |-> IF i \in IS THEN "new" ELSE "absent"]
  /\ deadline = [i \in Items |-> 0]
  /\ bus = [buffer |-> << >>, tail |-> 0, capacity |-> N]
  /\ \E c \in FS :
       /\ always_write_raw =
            [s \in Sinks |-> s \in SS /\ c[s].always_write_raw]
       /\ use_raw_as_fallback =
            [s \in Sinks |-> s \in SS /\ c[s].use_raw_as_fallback]
  /\ spc = [s \in Sinks |-> IF s \in SS THEN "recv" ELSE "absent"]
  /\ next = [s \in Sinks |-> 0]
  /\ cur = [s \in Sinks |-> NoResult]
  /\ curPos = [s \in Sinks |-> -1]
  /\ todo = [s \in Sinks |-> {}]
  /\ pending = [s \in Sinks |-> {}]
  /\ store = [s \in Sinks |-> << >>]
  /\ startAt = [i \in Items |-> 0]
  /\ nTicks = [i \in Items |-> 0]
  /\ lastTickAt = [i \in Items |-> 0]
  /\ inflight = [i \in Items |-> 0]
  /\ nFail = [i \in Items |-> 0]
  /\ nSend = [i \in Items |-> 0]
  /\ onTime = [i \in Items |-> TRUE]
  /\ sentLog = << >>
  /\ lastEv = [s \in Sinks |-> NoEvent]
  /\ skipped = [s \in Sinks |-> 0]
  /\ rawCalled = [s \in Sinks |-> FALSE]

PipelineInit(IS, SS, FS) ==
  PipelineInitWith(IS, SS, FS, ItemDigests, BusCapacity)

\* No call of digest on its own.
NoCall == [kind |-> RawKind, raw |-> << >>, itemkey |-> << >>]
NotCalled == [state |-> "none", result |-> NoResult]

\* No call of load on its own.
NotLoaded == [state |-> "none", why |-> "", items |-> << >>]
NoDigest == din = NoCall /\ dout = NotCalled
NoLoad == cfg = << >> /\ loaded = NotLoaded
\* An empty base directory and no call of a write function.
NoFile == [n \in {} |-> << >>]
NotWriting == [at |-> "none", key |-> << >>, line |-> << >>]
NoFiles ==
  files = NoFile /\ wlog = << >> /\ inpool = << >> /\ writing = NotWriting
\* app::start not running.
NoApp == heap = << >> /\ instant = 0 /\ apc = "absent" /\ spawned = << >>

InitWith(IS, SS, FS) ==
  /\ PipelineInit(IS, SS, FS)
  /\ NoDigest
  /\ NoLoad
  /\ NoFiles
  /\ NoApp

(***************************************************************************)
(* The bus: tokio::sync::broadcast, as Item::start and the sinks use it.   *)
(***************************************************************************)
\* Receivers alive: a sink drops its receiver when it leaves its loop.
ReceiverCount == Cardinality({s \in Sinks : spc[s] \notin {"done", "absent"}})

\* All Senders dropped: every item task is gone.
BusClosed == \A i \in Items : pc[i] \in {"gone", "absent"}

\* Sender::send succeeds iff a receiver is alive; it never waits.
SendOk == ReceiverCount > 0

\* A bounded queue instead: send waits while a receiver has a full backlog.
SendReadyWhenRoom ==
  \A s \in Sinks :
    spc[s] \notin {"done", "absent"} => bus.tail - next[s] < bus.capacity

\* send is a plain call, not an await: nothing a receiver does delays it.
SendReady == TRUE

\* The channel after send(msg): the message takes the slot of the oldest
\* one once the buffer is full; without a receiver it is not stored.
BusAfterSend(msg) ==
  IF ~SendOk THEN bus
  ELSE [buffer |-> IF Len(bus.buffer) < bus.capacity
                   THEN Append(bus.buffer, msg)
                   ELSE Append(Tail(bus.buffer), msg),
        tail |-> bus.tail + 1,
        capacity |-> bus.capacity]

\* The position of the oldest retained message.
OldestRetained == bus.tail - Len(bus.buffer)

\* The retained message at position p (positions count from 0).
Retained(p) == bus.buffer[p - OldestRetained + 1]

\* A count of everything unread instead of everything lost.
LaggedCountUnread(s) == bus.tail - next[s]

\* What a lagging receiver is told and where its cursor is put: the
\* number of messages between its cursor and the oldest retained one, and
\* the oldest retained one.
LaggedCount(s) == OldestRetained - next[s]
CursorAfterLag(s) == OldestRetained

\* recv has a message for s, a lag to report, or Closed to report.
RecvLagged(s) == next[s] < OldestRetained
RecvHasMessage(s) == ~RecvLagged(s) /\ next[s] < bus.tail
RecvClosed(s) == next[s] = bus.tail /\ BusClosed

(***************************************************************************)
(* Item::start (item.rs:27-45).                                            *)
(***************************************************************************)
\* A timer that waits one period before its first tick (interval_at).
FirstDeadlineDelayed(i) == now + Interval(i)

\* tokio::time::interval(period): the first tick completes at once, i.e.
\* its first deadline is the instant the interval is created.
FirstDeadline(i) == now

\* A scheduler that does not wait for the execution: the timer fires for an
\* item that is still executing (the thread-per-execution loop of app.rs).
TickReadyDetached(i) == pc[i] \in {"idle", "executing"} /\ now >= deadline[i]

\* One worker for all items: a timer fires only while no other item is
\* executing.
TickReadySerial(i) ==
  /\ pc[i] = "idle" /\ now >= deadline[i]
  /\ \A j \in Items \ {i} : pc[j] # "executing"

\* interval.tick().await returns: the task is waiting in it and the
\* deadline is reached.
TickReady(i) == pc[i] = "idle" /\ now >= deadline[i]

\* The deadline the timer holds after a tick: the previous deadline plus
\* the period (MissedTickBehavior::Burst, the default), whatever the clock
\* says.
DeadlineAfterTick(i) == deadline[i] + Interval(i)

\* A loop that sleeps one period after its work instead.
DeadlineAfterSleep(i) == now + Interval(i)

\* The loop body does not touch the timer: the deadline is what the last
\* tick() left.
DeadlineAfterWork(i) == deadline[i]

\* The task is polled for the first time: the interval is created.
ItemStart(i) ==
  /\ pc[i] = "new"
  /\ pc' = [pc EXCEPT ![i] = "idle"]
  /\ deadline' = [deadline EXCEPT ![i] = FirstDeadline(i)]
  /\ startAt' = [startAt EXCEPT ![i] = now]
  /\ UNCHANGED <<now, unitVars, digestOf, nTicks, lastTickAt, inflight, nFail, nSend,
                 onTime, busVars, sinkVars>>

\* interval.tick() returns and produce_result is called.
ItemTick(i) ==
  /\ TickReady(i)
  /\ pc' = [pc EXCEPT ![i] = "executing"]
  /\ deadline' = [deadline EXCEPT ![i] = DeadlineAfterTick(i)]
  /\ nTicks' = [nTicks EXCEPT ![i] = @ + 1]
  /\ lastTickAt' = [lastTickAt EXCEPT ![i] = now]
  /\ inflight' = [inflight EXCEPT ![i] = @ + 1]
  /\ UNCHANGED <<now, unitVars, digestOf, startAt, nFail, nSend, onTime, busVars,
                 sinkVars>>

\* How long the execution that ends now took, against the interval.
StillOnTime(i) == onTime[i] /\ now - lastTickAt[i] < Interval(i)

\* A failing execution that is reported on the bus, as a Result without
\* text.
ItemExecFailPublishing(i) ==
  /\ pc[i] = "executing"
  /\ pc' = [pc EXCEPT ![i] = "idle"]
  /\ deadline' = [deadline EXCEPT ![i] = DeadlineAfterWork(i)]
  /\ inflight' = [inflight EXCEPT ![i] = @ - 1]
  /\ nFail' = [nFail EXCEPT ![i] = @ + 1]
  /\ onTime' = [onTime EXCEPT ![i] = StillOnTime(i)]
  /\ LET msg == digest(RawKind, << >>, ItemKey(i), now)
     IN  /\ bus' = BusAfterSend(msg)
         /\ sentLog' = IF SendOk THEN Append(sentLog, msg) ELSE sentLog
  /\ UNCHANGED <<now, unitVars, digestOf, startAt, nTicks, lastTickAt, nSend, sinkVars>>

\* produce_result returns Err: two error! lines, and back to tick().
ItemExecFail(i) ==
  /\ pc[i] = "executing"
  /\ pc' = [pc EXCEPT ![i] = "idle"]
  /\ deadline' = [deadline EXCEPT ![i] = DeadlineAfterWork(i)]
  /\ inflight' = [inflight EXCEPT ![i] = @ - 1]
  /\ nFail' = [nFail EXCEPT ![i] = @ + 1]
  /\ onTime' = [onTime EXCEPT ![i] = StillOnTime(i)]
  /\ UNCHANGED <<now, unitVars, digestOf, startAt, nTicks, lastTickAt, nSend, busVars,
                 sinkVars>>

\* self.digest.digest(&r, &self.key) (item.rs:38) for every DigestKind an
\* item is configured with, every item and every text of RawOutputs: whether
\* the call panics, and the ItemResult it returns otherwise (its time is
\* read when the call is made).
ItemDigestKinds == {RawKind, RegexKind(OptGroupRegex), RegexKind(TwoGroupRegex)}
DigestCalls ==
  [k \in ItemDigestKinds |-> [i \in Items |-> [raw \in RawOutputs |->
     IF DigestPanics(k, raw)
     THEN [panics |-> TRUE, result |-> NoResult]
     ELSE [panics |-> FALSE, result |-> digest(k, raw, ItemKey(i), 0)]]]]
Digested(i, raw) == DigestCalls[digestOf[i]][i][raw]

\* A loop that ends when send returns Err (send(..).unwrap()).
ItemPublishOrStop(i) ==
  /\ pc[i] = "executing"
  /\ SendReady
  /\ \E raw \in RawOutputs :
       /\ ~Digested(i, raw).panics
       /\ LET msg == [Digested(i, raw).result EXCEPT !.time = now]
          IN  /\ bus' = BusAfterSend(msg)
              /\ sentLog' = IF SendOk THEN Append(sentLog, msg) ELSE sentLog
  /\ pc' = [pc EXCEPT ![i] = IF SendOk THEN "idle" ELSE "gone"]
  /\ deadline' = [deadline EXCEPT ![i] = DeadlineAfterWork(i)]
  /\ inflight' = [inflight EXCEPT ![i] = @ - 1]
  /\ nSend' = [nSend EXCEPT ![i] = @ + 1]
  /\ onTime' = [onTime EXCEPT ![i] = StillOnTime(i)]
  /\ UNCHANGED <<now, unitVars, digestOf, startAt, nTicks, lastTickAt, nFail, sinkVars>>

\* produce_result returns Ok(raw); digest returns; sender.send is called
\* (an Err of send is logged); back to tick().
ItemPublish(i) ==
  /\ pc[i] = "executing"
  /\ SendReady
  /\ \E raw \in RawOutputs :
       /\ ~Digested(i, raw).panics
       /\ LET msg == [Digested(i, raw).result EXCEPT !.time = now]
          IN  /\ bus' = BusAfterSend(msg)
              /\ sentLog' = IF SendOk THEN Append(sentLog, msg) ELSE sentLog
  /\ pc' = [pc EXCEPT ![i] = "idle"]
  /\ deadline' = [deadline EXCEPT ![i] = DeadlineAfterWork(i)]
  /\ inflight' = [inflight EXCEPT ![i] = @ - 1]
  /\ nSend' = [nSend EXCEPT ![i] = @ + 1]
  /\ onTime' = [onTime EXCEPT ![i] = StillOnTime(i)]
  /\ UNCHANGED <<now, unitVars, digestOf, startAt, nTicks, lastTickAt, nFail, sinkVars>>

\* produce_result returns Ok(raw) and digest panics: the task ends, and its
\* Sender is dropped with it.
ItemPanic(i) ==
  /\ pc[i] = "executing"
  /\ \E raw \in RawOutputs : Digested(i, raw).panics
  /\ pc' = [pc EXCEPT ![i] = "gone"]
  /\ inflight' = [inflight EXCEPT ![i] = @ - 1]
  /\ onTime' = [onTime EXCEPT ![i] = StillOnTime(i)]
  /\ UNCHANGED <<now, unitVars, digestOf, deadline, startAt, nTicks, lastTickAt, nFail,
                 nSend, busVars, sinkVars>>

\* A second passes.  A due timer of a waiting task fires first.
Tick ==
  /\ now < MaxTime
  /\ \A i \in Items : ~TickReady(i)
  /\ now' = now + 1
  /\ UNCHANGED <<itemVars, busVars, sinkVars, unitVars>>

(***************************************************************************)
(* FileOutput::start (output.rs:121-165) and InfluxDBOutput::start         *)
(* (output.rs:210-262).                                                    *)
(***************************************************************************)
IsEmpty(values) == DOMAIN values = {}

\* The InfluxDB sink's condition in the File sink.
FileWritesRawAsFallback(s, r) ==
  (IsEmpty(r.values) /\ use_raw_as_fallback[s]) \/ always_write_raw[s]

\* output.rs:134
FileWritesRaw(s, r) == IsEmpty(r.values) \/ always_write_raw[s]

\* The File sink's condition in the InfluxDB sink: use_raw_as_fallback
\* ignored.
InfluxWritesRawAlways(s, r) == IsEmpty(r.values) \/ always_write_raw[s]

\* output.rs:229-230
InfluxWritesRaw(s, r) ==
  (IsEmpty(r.values) /\ use_raw_as_fallback[s]) \/ always_write_raw[s]

WritesRaw(s, r) ==
  IF SinkType(s) = "file" THEN FileWritesRaw(s, r) ELSE InfluxWritesRaw(s, r)

\* output.rs:150 and output.rs:247
WritesValues(s, r) == ~IsEmpty(r.values)

\* The timestamp a write carries: time.as_secs() in the File sink,
\* time.as_millis() in the InfluxDB sink.
WriteTime(s, r) == IF SinkType(s) = "file" THEN r.time ELSE r.time * 1000

RawSuffix == <<".", "r", "a", "w">>

\* What write_raw_value stores for r: key "<key>.raw", the raw text.
\* partial tells a write of which only the beginning reached the backend.
RawWrite(s, r, p) ==
  [kind |-> "raw", key |-> r.key \o RawSuffix, text |-> r.raw, num |-> NaN,
   time |-> WriteTime(s, r), pos |-> p, partial |-> FALSE]

\* What storing one sample of r stores.
ValueWrite(s, r, m, p) ==
  [kind |-> "value", key |-> m, text |-> << >>, num |-> r.values[m],
   time |-> WriteTime(s, r), pos |-> p, partial |-> FALSE]

\* The position the receiver hands out, and its cursor afterwards.
RecvPos(s) == next[s]
CursorAfterRecv(s) == next[s] + 1

\* A queue whose messages are taken rather than cloned: a message another
\* sink has taken is gone.
ReceivedTaken(s) ==
  IF \E t \in Sinks \ {s} : curPos[t] = RecvPos(s)
  THEN NoResult
  ELSE Retained(RecvPos(s))

\* What recv hands to sink s: a clone of the message in the slot.
Received(s) == Retained(RecvPos(s))

\* Where the sink goes once it has r in hand (or is done with the raw
\* write): into the raw write, into the sample write, or back to recv.
AfterRecv(s, r) ==
  IF WritesRaw(s, r) THEN "raw"
  ELSE IF WritesValues(s, r) THEN "values" ELSE "recv"
AfterRaw(s, r) == IF WritesValues(s, r) THEN "values" ELSE "recv"

\* recv returns Ok(itemresult).
SinkRecvOk(s) ==
  /\ spc[s] = "recv"
  /\ RecvHasMessage(s)
  /\ LET r == Received(s)
     IN  /\ cur' = [cur EXCEPT ![s] = r]
         /\ curPos' = [curPos EXCEPT ![s] = RecvPos(s)]
         /\ spc' = [spc EXCEPT ![s] = AfterRecv(s, r)]
         /\ todo' = [todo EXCEPT ![s] = DOMAIN r.values]
         /\ rawCalled' = [rawCalled EXCEPT ![s] = WritesRaw(s, r)]
  /\ lastEv' = [lastEv EXCEPT ![s] =
                  [kind |-> "msg", pos |-> RecvPos(s), count |-> 0,
                   tail |-> bus.tail]]
  /\ next' = [next EXCEPT ![s] = CursorAfterRecv(s)]
  /\ UNCHANGED <<now, unitVars, itemVars, busVars, always_write_raw,
                 use_raw_as_fallback, pending, store, skipped>>

\* recv returns Err(Lagged(count)): the cursor moves to the oldest retained
\* message, a warn! line, and recv again.
SinkRecvLagged(s) ==
  /\ spc[s] = "recv"
  /\ RecvLagged(s)
  /\ lastEv' = [lastEv EXCEPT ![s] =
                  [kind |-> "lag", pos |-> CursorAfterLag(s),
                   count |-> LaggedCount(s), tail |-> bus.tail]]
  /\ next' = [next EXCEPT ![s] = CursorAfterLag(s)]
  /\ skipped' = [skipped EXCEPT ![s] = @ + LaggedCount(s)]
  /\ UNCHANGED <<now, unitVars, itemVars, busVars, always_write_raw,
                 use_raw_as_fallback, spc, cur, curPos, todo, pending, store,
                 rawCalled>>

\* A sink that treats Closed like a lag: log and receive again.
SinkRecvClosedRetry(s) ==
  /\ spc[s] = "recv"
  /\ RecvClosed(s)
  /\ lastEv' = [lastEv EXCEPT ![s] =
                  [kind |-> "closed", pos |-> next[s], count |-> 0,
                   tail |-> bus.tail]]
  /\ UNCHANGED <<now, unitVars, itemVars, busVars, always_write_raw,
                 use_raw_as_fallback, spc, next, cur, curPos, todo, pending,
                 store, skipped, rawCalled>>

\* recv returns Err(Closed): break.
SinkRecvClosed(s) ==
  /\ spc[s] = "recv"
  /\ RecvClosed(s)
  /\ spc' = [spc EXCEPT ![s] = "done"]
  /\ lastEv' = [lastEv EXCEPT ![s] =
                  [kind |-> "closed", pos |-> next[s], count |-> 0,
                   tail |-> bus.tail]]
  /\ UNCHANGED <<now, unitVars, itemVars, busVars, always_write_raw,
                 use_raw_as_fallback, next, cur, curPos, todo, pending, store,
                 skipped, rawCalled>>

\* What a raw write that returned Ok leaves behind.  File sink
\* (output.rs:96-101): write_all of tokio::fs::File copies the line into
\* the File's buffer and hands the write to the blocking pool; nothing
\* flushes, so the call returns before the line is in the file.  InfluxDB
\* sink (output.rs:176-186): the query is answered when the write is
\* stored.
RawWritten(s, ok) ==
  LET w == RawWrite(s, cur[s], curPos[s])
  IN  /\ pending' = [pending EXCEPT ![s] =
                       IF ok /\ SinkType(s) = "file" THEN @ \cup {w} ELSE @]
      /\ store' = [store EXCEPT ![s] =
                     IF ok /\ SinkType(s) = "influx" THEN Append(@, w)
                     ELSE @]

\* A sink that gives up on the first failed raw write.
SinkWriteRawOrStop(s) ==
  /\ spc[s] = "raw"
  /\ \E ok \in BOOLEAN :
       /\ RawWritten(s, ok)
       /\ spc' = [spc EXCEPT ![s] =
                    IF ok THEN AfterRaw(s, cur[s]) ELSE "done"]
  /\ UNCHANGED <<now, unitVars, itemVars, busVars, always_write_raw,
                 use_raw_as_fallback, next, cur, curPos, todo, lastEv,
                 skipped, rawCalled>>

\* write_raw_value returns: Ok, or Err (logged: open_file failed, or the
\* query did).
SinkWriteRaw(s) ==
  /\ spc[s] = "raw"
  /\ \E ok \in BOOLEAN : RawWritten(s, ok)
  /\ spc' = [spc EXCEPT ![s] = AfterRaw(s, cur[s])]
  /\ UNCHANGED <<now, unitVars, itemVars, busVars, always_write_raw,
                 use_raw_as_fallback, next, cur, curPos, todo, lastEv,
                 skipped, rawCalled>>

\* The orders in which a set of metric names can be iterated.
RECURSIVE Orders(_)
Orders(S) ==
  IF S = {} THEN { << >> }
  ELSE UNION { { <<m>> \o o : o \in Orders(S \ {m}) } : m \in S }

\* FileOutput::write_values, one turn of its loop (output.rs:109-111):
\* write_value for the next sample m of the map's iteration returns.  Ok:
\* the line is handed to the blocking pool, and the call goes on with the
\* samples left, or returns when none is.  Err: write_values returns at
\* once (the ? operator), the samples left are not attempted.
FileWriteValues(s) ==
  /\ \E m \in todo[s], ok \in BOOLEAN :
       /\ pending' = [pending EXCEPT ![s] =
                        IF ok
                        THEN @ \cup {ValueWrite(s, cur[s], m, curPos[s])}
                        ELSE @]
       /\ todo' = [todo EXCEPT ![s] = IF ok THEN @ \ {m} ELSE {}]
  /\ spc' = [spc EXCEPT ![s] = IF todo'[s] = {} THEN "recv" ELSE "values"]
  /\ store' = store

\* InfluxDBOutput::write_values (output.rs:187-203): one query for all the
\* samples, stored whole or not at all.
InfluxWriteValues(s) ==
  /\ \E ord \in Orders(todo[s]), ok \in BOOLEAN :
       store' = [store EXCEPT ![s] =
                   IF ok
                   THEN @ \o [k \in 1..Len(ord) |->
                                ValueWrite(s, cur[s], ord[k], curPos[s])]
                   ELSE @]
  /\ todo' = [todo EXCEPT ![s] = {}]
  /\ spc' = [spc EXCEPT ![s] = "recv"]
  /\ pending' = pending

\* The sink in write_values(..).await takes its next step.
SinkWriteValues(s) ==
  /\ spc[s] = "values"
  /\ IF SinkType(s) = "file" THEN FileWriteValues(s)
     ELSE InfluxWriteValues(s)
  /\ UNCHANGED <<now, unitVars, itemVars, busVars, always_write_raw,
                 use_raw_as_fallback, next, cur, curPos, lastEv, skipped,
                 rawCalled>>

\* A thread of the blocking pool runs one of the writes handed to it
\* (write_all of std::fs::File): the line is appended to its file; or
\* write(2) fails after a part of the line is in the file; or it fails
\* with nothing written.  Nobody is told of a failure (the File that would
\* report it on its next operation is dropped).  The pool has several
\* threads, so the writes run in any order.
BlockingWrite(s) ==
  /\ \E w \in pending[s], done \in {"all", "part", "nothing"} :
       /\ pending' = [pending EXCEPT ![s] = @ \ {w}]
       /\ store' = [store EXCEPT ![s] =
                      CASE done = "all" -> Append(@, w)
                        [] done = "part" ->
                             Append(@, [w EXCEPT !.partial = TRUE])
                        [] done = "nothing" -> @]
  /\ UNCHANGED <<now, unitVars, itemVars, busVars, always_write_raw,
                 use_raw_as_fallback, spc, next, cur, curPos, todo, lastEv,
                 skipped, rawCalled>>

Next ==
  \/ Tick
  \/ \E i \in Items :
       ItemStart(i) \/ ItemTick(i) \/ ItemExecFail(i) \/ ItemPublish(i)
         \/ ItemPanic(i)
  \/ \E s \in Sinks :
       SinkRecvOk(s) \/ SinkRecvLagged(s) \/ SinkRecvClosed(s)
         \/ SinkWriteRaw(s) \/ SinkWriteValues(s) \/ BlockingWrite(s)

(***************************************************************************)
(* The configurations checked.                                             *)
(***************************************************************************)
\* One item and one sink, whichever.
SoloInit == \E i \in Items, s \in Sinks : InitWith({i}, {s}, SinkFlags)
SoloSpec == SoloInit /\ [][Next]_vars

\* One item and both sinks.
FanoutInit == InitWith({2}, Sinks, SinkFlags)
FanoutSpec == FanoutInit /\ [][Next]_vars

\* Both items and the InfluxDB sink (use_raw_as_fallback set,
\* always_write_raw not).  Without a File sink nothing is handed to the
\* blocking pool.
TwoItemNext ==
  \/ Tick
  \/ \E i \in Items :
       ItemStart(i) \/ ItemTick(i) \/ ItemExecFail(i) \/ ItemPublish(i)
         \/ ItemPanic(i)
  \/ \E s \in Sinks :
       SinkRecvOk(s) \/ SinkRecvLagged(s) \/ SinkRecvClosed(s)
         \/ SinkWriteRaw(s) \/ SinkWriteValues(s)
TwoItemInit ==
  InitWith(Items, {2},
           {c \in SinkFlags :
              c[2].use_raw_as_fallback /\ ~c[2].always_write_raw})
TwoItemSpec == TwoItemInit /\ [][TwoItemNext]_vars

\* Both items, the InfluxDB sink (with the same flags) and a channel that
\* retains LagCapacity messages: a sink that lags finds a backlog.
LagInit ==
  /\ PipelineInitWith(Items, {2},
                      {c \in SinkFlags :
                         c[2].use_raw_as_fallback /\ ~c[2].always_write_raw},
                      ItemDigests, LagCapacity)
  /\ NoDigest
  /\ NoLoad
  /\ NoFiles
  /\ NoApp
LagSpec == LagInit /\ [][TwoItemNext]_vars

\* One item whose Results have up to two samples, and the File sink
\* without always_write_raw.
PartialInit ==
  /\ PipelineInitWith({1}, {1},
                      {c \in SinkFlags : \A s \in Sinks : ~c[s].always_write_raw},
                      {[i \in Items |-> RegexKind(TwoGroupRegex)]},
                      BusCapacity)
  /\ NoDigest
  /\ NoLoad
  /\ NoFiles
  /\ NoApp
PartialSpec == PartialInit /\ [][Next]_vars

\* Both items and no sink: only the clock and the items take steps.
ItemNext ==
  \/ Tick
  \/ \E i \in Items :
       ItemStart(i) \/ ItemTick(i) \/ ItemExecFail(i) \/ ItemPublish(i)
         \/ ItemPanic(i)
NoSinkInit == InitWith(Items, {}, SinkFlags)
NoSinkSpec == NoSinkInit /\ [][ItemNext]_vars

\* digest on its own: one call of DigestKind::digest on one of the inputs.
\* The call returns an ItemResult, or it panics.
DigestInit ==
  /\ PipelineInit({}, {}, SinkFlags)
  /\ din \in DigestInputs
  /\ dout = NotCalled
  /\ NoLoad
  /\ NoFiles
  /\ NoApp

DigestCall ==
  /\ dout = NotCalled
  /\ dout' = IF DigestPanics(din.kind, din.raw)
             THEN [state |-> "panic", result |-> NoResult]
             ELSE [state |-> "ok",
                   result |-> digest(din.kind, din.raw, din.itemkey, now)]
  /\ UNCHANGED <<now, itemVars, busVars, sinkVars, din, loadVars, fileVars,
                 appVars>>

DigestSpec == DigestInit /\ [][DigestCall]_vars

\* load on its own: one call of conf::load on one of the configurations.
LoadInit ==
  /\ PipelineInit({}, {}, SinkFlags)
  /\ NoDigest
  /\ NoFiles
  /\ NoApp
  /\ cfg \in Configs
  /\ loaded = NotLoaded

LoadCall ==
  /\ loaded = NotLoaded
  /\ loaded' = load(cfg)
  /\ UNCHANGED <<now, itemVars, busVars, sinkVars, digestVars, cfg, fileVars,
                 appVars>>

LoadSpec == LoadInit /\ [][LoadCall]_vars

(***************************************************************************)
(* FileOutput::open_file, write_raw_value and write_value                  *)
(* (output.rs:85-107), called on their own.                                *)
(***************************************************************************)
\* str::replace('/', "_")
RECURSIVE ReplaceSlash(_)
ReplaceSlash(key) ==
  IF key = << >> THEN << >>
  ELSE <<IF Head(key) = "/" THEN "_" ELSE Head(key)>> \o ReplaceSlash(Tail(key))

\* The name of the file open_file opens under base_path.
FileName(key) == ReplaceSlash(key)

\* The decimal digits of n >= 0 ({} of an unsigned integer).
DigitOf(d) ==
  CASE d = 0 -> "0" [] d = 1 -> "1" [] d = 2 -> "2" [] d = 3 -> "3"
    [] d = 4 -> "4" [] d = 5 -> "5" [] d = 6 -> "6" [] d = 7 -> "7"
    [] d = 8 -> "8" [] d = 9 -> "9"
RECURSIVE FormatNat(_)
FormatNat(n) ==
  IF n < 10 THEN <<DigitOf(n)>>
  ELSE FormatNat(n \div 10) \o <<DigitOf(n % 10)>>

RECURSIVE Pow1024(_)
Pow1024(e) == IF e = 0 THEN 1 ELSE 1024 * Pow1024(e - 1)

\* {} of an f64 without a fraction.
FormatF64(x) ==
  CASE x.class = "nan" -> <<"N", "a", "N">>
    [] x.class = "negzero" -> <<"-", "0">>
    [] x.class = "inf" ->
         IF x.v < 0 THEN <<"-", "i", "n", "f">> ELSE <<"i", "n", "f">>
    [] x.class = "finite" ->
         LET n == x.v * Pow1024(x.e)
         IN  IF n < 0 THEN <<"-">> \o FormatNat(-n) ELSE FormatNat(n)

\* format!("{} {}\n", time.as_secs(), value)
LineOf(secs, valuetext) == FormatNat(secs) \o <<" ">> \o valuetext \o <<"\n">>

\* The directory after OpenOptions .append(true).create(true) .open: the
\* file is there, empty if it was not there before.
Opened(fs, name) ==
  [n \in DOMAIN fs \cup {name} |-> IF n \in DOMAIN fs THEN fs[n] ELSE << >>]

\* The directory after write(2) of a line to a file opened for append.
Appended(fs, name, line) ==
  [n \in DOMAIN fs \cup {name} |->
     IF n = name THEN (IF n \in DOMAIN fs THEN fs[n] ELSE << >>) \o line
     ELSE fs[n]]

\* The metric keys, raw texts, samples and times of the calls.
MetricKeys(suffix) == {k \o suffix : k \in ConfigKeys}
WriteTexts == { <<"7", " ", "x">> }
WriteNumbers == { NaN, NegZero }
WriteSecs == {12}

FileInit ==
  /\ PipelineInit({}, {}, SinkFlags)
  /\ NoDigest
  /\ NoLoad
  /\ NoFiles
  /\ NoApp

\* A write function is called, with the line it will format: it is in
\* open_file(key).await.  The calls are made one after the other, as the
\* sink makes them.
WriteCall(key, line) ==
  /\ writing = NotWriting
  /\ Len(wlog) < MaxWrites
  /\ writing' = [at |-> "open", key |-> key, line |-> line]
  /\ UNCHANGED <<files, wlog, inpool>>
  /\ UNCHANGED <<now, itemVars, busVars, sinkVars, digestVars, loadVars, appVars>>

\* open_file(key).await (output.rs:85-95) is over: the file is opened, and
\* created if it was not there, and the call goes on; or the open fails
\* and the call returns the Err (the ? operator), nothing changed.
FileOpenFile ==
  /\ writing.at = "open"
  /\ \E ok \in BOOLEAN :
       IF ok
       THEN /\ files' = Opened(files, FileName(writing.key))
            /\ writing' = [writing EXCEPT !.at = "write"]
       ELSE /\ files' = files
            /\ writing' = NotWriting
  /\ UNCHANGED <<wlog, inpool>>
  /\ UNCHANGED <<now, itemVars, busVars, sinkVars, digestVars, loadVars, appVars>>

\* write_all(..).await returns Ok when it has copied the line into the
\* buffer of the tokio File and handed the write to the blocking pool:
\* nothing flushes, the function returns Ok and drops the File, and the
\* line is not in the file yet.
FileWriteAll ==
  /\ writing.at = "write"
  /\ inpool' = Append(inpool, [key |-> writing.key, line |-> writing.line])
  /\ wlog' = Append(wlog, [key |-> writing.key, line |-> writing.line])
  /\ writing' = NotWriting
  /\ files' = files
  /\ UNCHANGED <<now, itemVars, busVars, sinkVars, digestVars, loadVars, appVars>>

\* The sequence q without its k-th element.
Without(q, k) == SubSeq(q, 1, k - 1) \o SubSeq(q, k + 1, Len(q))

\* A thread of the blocking pool runs one of the writes handed to it, in
\* any order (write_all of std::fs::File): the first n characters of the
\* line are appended to the file, all of them when no write(2) fails,
\* fewer, or none, when one does, which no caller is told.
FileBlockingWrite ==
  /\ \E k \in 1..Len(inpool) :
       \E n \in 0..Len(inpool[k].line) :
         /\ inpool' = Without(inpool, k)
         /\ files' = Appended(files, FileName(inpool[k].key),
                              SubSeq(inpool[k].line, 1, n))
  /\ UNCHANGED writing
  /\ UNCHANGED <<now, itemVars, busVars, sinkVars, digestVars, loadVars, appVars,
                 wlog>>

\* write_raw_value(key, value, time)
FileWriteRawValue ==
  \E key \in MetricKeys(RawSuffix), value \in WriteTexts, secs \in WriteSecs :
    WriteCall(key, LineOf(secs, value))

\* write_value(key, value, time)
FileWriteValue ==
  \E key \in MetricKeys(<<".", "p", "a", "r", "s", "e", "d">>),
     value \in WriteNumbers, secs \in WriteSecs :
    WriteCall(key, LineOf(secs, FormatF64(value)))

FileNext ==
  \/ FileWriteRawValue \/ FileWriteValue
  \/ FileOpenFile \/ FileWriteAll
  \/ FileBlockingWrite
FileSpec == FileInit /\ [][FileNext]_vars

(***************************************************************************)
(* app::start (app.rs:11-105), the scheduler with one thread per           *)
(* execution.  conf.items is a queue of the items, each with its           *)
(* next_time; which entry peek and pop hand out is decided by the order of *)
(* the items, which app.rs does not define: any entry can be the one.      *)
(***************************************************************************)
\* The queues start is given: each configured item once, in any order,
\* with a next_time of 0 or 1.
AppHeaps ==
  { h \in UNION {[1..n -> [item : Items, next_time : 0..1]] :
                   n \in 1..Cardinality(Items)} :
      \A j, k \in 1..Len(h) : h[j].item = h[k].item => j = k }

AppInit ==
  /\ PipelineInit({}, {}, SinkFlags)
  /\ NoDigest
  /\ NoLoad
  /\ NoFiles
  /\ heap \in AppHeaps
  /\ instant = 0
  /\ apc = "run"
  /\ spawned = << >>

\* The queue without its k-th entry (pop).
Popped(h, k) == SubSeq(h, 1, k - 1) \o SubSeq(h, k + 1, Len(h))

\* A dispatch that pushes the clone, which has the old next_time.
AppDispatchClone(k) ==
  /\ apc = "run"
  /\ k \in 1..Len(heap)
  /\ ~(heap[k].next_time > instant)
  /\ heap' = Append(Popped(heap, k), heap[k])
  /\ spawned' = Append(spawned, [item |-> heap[k].item, at |-> instant])
  /\ UNCHANGED <<now, itemVars, busVars, sinkVars, digestVars, loadVars,
                 fileVars, instant, apc>>

\* One round of the inner loop that does not break (app.rs:16-39):
\* cur_time is taken, the entry at the top is due, it is popped, pushed
\* with next_time = cur_time + interval, and its worker thread is spawned.
AppDispatch(k) ==
  /\ apc = "run"
  /\ k \in 1..Len(heap)
  /\ ~(heap[k].next_time > instant)
  /\ heap' = Append(Popped(heap, k),
                    [item |-> heap[k].item,
                     next_time |-> instant + Interval(heap[k].item)])
  /\ spawned' = Append(spawned, [item |-> heap[k].item, at |-> instant])
  /\ UNCHANGED <<now, itemVars, busVars, sinkVars, digestVars, loadVars,
                 fileVars, instant, apc>>

\* The round that breaks (app.rs:17-23): the entry at the top is not due.
AppBreak ==
  /\ apc = "run"
  /\ \E k \in 1..Len(heap) : heap[k].next_time > instant
  /\ apc' = "outer"
  /\ UNCHANGED <<now, itemVars, busVars, sinkVars, digestVars, loadVars,
                 fileVars, heap, instant, spawned>>

\* After the break (app.rs:98-103): when the top entry's next_time has
\* passed by now, next_time.duration_since(cur_time) is asked for a time
\* span below zero, which panics or gives zero, by the version of std;
\* otherwise the loop goes on at once.
AppOuter ==
  /\ apc = "outer"
  /\ \E k \in 1..Len(heap) :
       IF instant > heap[k].next_time
       THEN apc' \in {"run", "gone"}
       ELSE apc' = "run"
  /\ UNCHANGED <<now, itemVars, busVars, sinkVars, digestVars, loadVars,
                 fileVars, heap, instant, spawned>>

\* A second passes.
AppTick ==
  /\ apc # "absent"
  /\ instant < MaxTime
  /\ instant' = instant + 1
  /\ UNCHANGED <<now, itemVars, busVars, sinkVars, digestVars, loadVars,
                 fileVars, heap, apc, spawned>>

AppNext ==
  \/ \E k \in 1..Cardinality(Items) : AppDispatch(k)
  \/ AppBreak
  \/ AppOuter
  \/ AppTick
AppSpec == AppInit /\ [][AppNext]_vars

\* The runtime polls a task that can run, and a write returns: a sink that
\* can take a step takes one.
SinkStep(s) ==
  SinkRecvOk(s) \/ SinkRecvLagged(s) \/ SinkRecvClosed(s)
    \/ SinkWriteRaw(s) \/ SinkWriteValues(s)
SoloFairSpec == SoloSpec /\ \A s \in Sinks : WF_vars(SinkStep(s))

(***************************************************************************)
(* Properties of the scheduler (spec section 4.3).                         *)
(***************************************************************************)
\* sender.send calls of all items together.
TotalSent == nSend[1] + nSend[2]

\* C1: a step in which an item's execution fails publishes nothing on the
\* bus and leaves the item in its loop, waiting for the tick its timer
\* already holds; so the bus has carried one message per successful tick
\* and none for a failed one.
C1_FailurePublishesNothing ==
  /\ [][\A i \in Items :
          nFail'[i] > nFail[i] =>
            /\ bus' = bus /\ sentLog' = sentLog /\ nSend' = nSend
            /\ pc'[i] = "idle" /\ deadline'[i] = deadline[i]]_vars
  /\ [](/\ Len(sentLog) = TotalSent
        /\ \A i \in Items :
             pc[i] \in {"idle", "executing"} =>
               nTicks[i] = nSend[i] + nFail[i] + inflight[i])

\* Every tick but the running one failed, nothing was ever published, and
\* the item is executing again.
C1_Witness ==
  \E i \in Items :
    /\ pc[i] = "executing" /\ nTicks[i] >= 2
    /\ nFail[i] = nTicks[i] - 1 /\ bus.tail = 0

\* C2: an item never has two executions in progress: an execution is in
\* progress exactly while the item is between its tick and the end of the
\* work of that tick.
C2_NoOverlappingTicks ==
  \A i \in Items :
    /\ inflight[i] <= 1
    /\ inflight[i] = 1 <=> pc[i] = "executing"

\* An execution is still in progress when the item's next tick is due.
C2_Witness ==
  \E i \in Items :
    pc[i] = "executing" /\ nTicks[i] >= 1 /\ now >= deadline[i]

\* C3 as stated: no execution earlier than one full interval after the task
\* started.
C3_FirstTickAfterInterval ==
  \A i \in Items : nTicks[i] >= 1 => lastTickAt[i] >= startAt[i] + Interval(i)

\* C3: the first execution happens at the instant the task starts: the
\* first tick of the interval does not wait.
C3_FirstTickAtStart ==
  \A i \in Items :
    /\ nTicks[i] = 1 => lastTickAt[i] = startAt[i]
    /\ (pc[i] = "idle" /\ nTicks[i] = 0) =>
         (deadline[i] = startAt[i] /\ now = startAt[i])

\* A task that started late is in its first execution, at its start time.
C3_Witness ==
  \E i \in Items :
    /\ startAt[i] > 0 /\ nTicks[i] = 1 /\ pc[i] = "executing"
    /\ lastTickAt[i] = startAt[i] /\ now = startAt[i]

\* Every execution of item i so far succeeded and took less than the
\* interval, the running one included.
OnSchedule(i) ==
  /\ nTicks[i] >= 1 /\ nFail[i] = 0 /\ onTime[i]
  /\ pc[i] \in {"idle", "executing"}
  /\ pc[i] = "executing" => now - lastTickAt[i] < Interval(i)

\* C4: while every execution succeeds and takes less than the interval, the
\* ticks are exactly one interval apart: tick N (counted from 0) fired at
\* start + N * interval, the next one is due one interval after the last,
\* and every finished tick has published exactly one Result.
C4_FixedRate ==
  \A i \in Items :
    OnSchedule(i) =>
      /\ lastTickAt[i] = startAt[i] + (nTicks[i] - 1) * Interval(i)
      /\ pc[i] = "idle" => deadline[i] = lastTickAt[i] + Interval(i)
      /\ nSend[i] = nTicks[i] - inflight[i]
      /\ Len(sentLog) = TotalSent

\* An item is on schedule with two or more ticks behind it, each finished
\* with one Result sent.
C4_Witness ==
  \E i \in Items :
    /\ OnSchedule(i) /\ nTicks[i] >= 2 /\ nSend[i] = nTicks[i]
    /\ lastTickAt[i] = startAt[i] + (nTicks[i] - 1) * Interval(i)

(***************************************************************************)
(* Properties of the bus and the sinks (spec sections 4.4 and 4.5).        *)
(***************************************************************************)
\* The message the bus accepted at position p.
Sent(p) == sentLog[p + 1]

\* C5: a sink that lags never blocks a producer: an executing item can
\* always publish, whatever backlog the sinks have; and a receive of one
\* sink, a lag report included, changes nothing of the other sinks, of the
\* bus, of the clock or of any item's timer.
C5_LagNeverBlocks ==
  /\ [](\A i \in Items : pc[i] = "executing" => ENABLED ItemPublish(i))
  /\ [][\A s \in Sinks :
          lastEv'[s] # lastEv[s] =>
            /\ UNCHANGED <<now, itemVars, busVars>>
            /\ \A t \in Sinks \ {s} :
                 /\ next'[t] = next[t] /\ cur'[t] = cur[t]
                 /\ curPos'[t] = curPos[t] /\ spc'[t] = spc[t]
                 /\ store'[t] = store[t] /\ skipped'[t] = skipped[t]
                 /\ lastEv'[t] = lastEv[t]]_vars

\* The item has published past a sink whose backlog was full, and the other
\* sink has received every message without a lag.
C5_Witness ==
  \E s \in Sinks, t \in Sinks :
    /\ s # t /\ bus.tail - next[s] > bus.capacity
    /\ next[t] = bus.tail /\ skipped[t] = 0 /\ lastEv[t].kind = "msg"

\* C6 as stated: the receive that follows a lag report returns the message
\* the report moved the cursor to.
C6_MessageAfterLag ==
  [][\A s \in Sinks :
       (lastEv[s].kind = "lag" /\ lastEv'[s] # lastEv[s]) =>
         (lastEv'[s].kind = "msg" /\ lastEv'[s].pos = lastEv[s].pos)]_vars

\* C6: a lag report carries exactly the number of messages the sink can no
\* longer get, moves its cursor to the oldest retained message, persists
\* nothing and leaves the sink receiving.  The receive that follows returns
\* that message if nothing was published in between, and otherwise is a lag
\* report again, for as many messages as were published in between.
\* Consecutive messages are consecutive in publish order.
C6_LagReport ==
  [][\A s \in Sinks :
       lastEv'[s] # lastEv[s] =>
         /\ lastEv'[s].kind = "lag" =>
              /\ lastEv'[s].count =
                   Cardinality({p \in 0..(bus.tail - 1) :
                                  next[s] <= p /\ p < bus.tail - bus.capacity})
              /\ lastEv'[s].count >= 1
              /\ next'[s] = bus.tail - bus.capacity
              /\ lastEv'[s].pos = next'[s]
              /\ store'[s] = store[s] /\ cur'[s] = cur[s]
              /\ spc'[s] = "recv"
         /\ lastEv[s].kind = "lag" =>
              IF bus.tail = lastEv[s].tail
              THEN /\ lastEv'[s].kind = "msg"
                   /\ lastEv'[s].pos = lastEv[s].pos
                   /\ cur'[s] = Sent(lastEv[s].pos)
              ELSE /\ lastEv'[s].kind = "lag"
                   /\ lastEv'[s].count = bus.tail - lastEv[s].tail
         /\ (lastEv[s].kind = "msg" /\ lastEv'[s].kind = "msg") =>
              lastEv'[s].pos = lastEv[s].pos + 1]_vars

\* A sink found three messages published and two of them retained: it was
\* told of a lag of one message, which moved it to the older of the two,
\* and it has received that one and then the newer one.
C6_Witness ==
  \E s \in Sinks :
    /\ bus.capacity = 2 /\ bus.tail = 3
    /\ skipped[s] = 1 /\ lastEv[s].kind = "msg"
    /\ curPos[s] = 2 /\ cur[s] = Sent(2)

\* C7: what a sink has stored is in publish order, nothing twice, and is
\* what was published at that position; the sink takes the next message
\* only when it has no write of the previous one in progress, and nothing
\* of a message is stored before it is received.
C7_SinkOrder ==
  /\ [](\A s \in Sinks :
          /\ \A k \in 1..Len(store[s]), l \in 1..Len(store[s]) :
               k < l =>
                 /\ store[s][k].pos <= store[s][l].pos
                 /\ store[s][k].pos = store[s][l].pos =>
                      <<store[s][k].kind, store[s][k].key>>
                        # <<store[s][l].kind, store[s][l].key>>
          /\ \A k \in 1..Len(store[s]) :
               /\ store[s][k].pos <= curPos[s]
               /\ store[s][k].time = WriteTime(s, Sent(store[s][k].pos)))
  /\ [][\A s \in Sinks :
          lastEv'[s] # lastEv[s] =>
            /\ spc[s] = "recv"
            /\ lastEv'[s].kind = "msg" => curPos'[s] > curPos[s]]_vars

\* C8: what a sink holds is the Result that was published at that position,
\* field by field, so two sinks at the same position hold equal Results;
\* and a sink's cursor passes a message only by receiving it or by a lag
\* report that counts it.
C8_FanOut ==
  /\ [](\A s \in Sinks : curPos[s] >= 0 => cur[s] = Sent(curPos[s]))
  /\ [](\A s \in Sinks, t \in Sinks :
          (curPos[s] >= 0 /\ curPos[s] = curPos[t]) =>
            /\ cur[s].key = cur[t].key /\ cur[s].time = cur[t].time
            /\ cur[s].raw = cur[t].raw /\ cur[s].values = cur[t].values)
  /\ [][\A s \in Sinks :
          next'[s] # next[s] =>
            \/ /\ next'[s] = next[s] + 1 /\ curPos'[s] = next[s]
               /\ skipped'[s] = skipped[s]
            \/ /\ skipped'[s] - skipped[s] = next'[s] - next[s]
               /\ curPos'[s] = curPos[s]]_vars

\* Both sinks hold the same published Result, one with a sample in it.
C8_Witness ==
  \E s \in Sinks, t \in Sinks :
    /\ s # t /\ curPos[s] >= 0 /\ curPos[s] = curPos[t]
    /\ cur[s] = cur[t] /\ ~IsEmpty(cur[s].values)

\* C9: once the bus is closed, every sink leaves its loop: the receive that
\* reports Closed is the sink's last step, and a sink leaves only so, with
\* every message before the close received or reported as lag.
C9_ClosedEndsSinks ==
  /\ BusClosed ~> \A s \in Sinks : spc[s] \in {"done", "absent"}
  /\ [][\A s \in Sinks :
          (lastEv'[s] # lastEv[s] /\ lastEv'[s].kind = "closed") =>
            spc'[s] = "done"]_vars
  /\ [](\A s \in Sinks :
          spc[s] = "done" =>
            /\ BusClosed /\ next[s] = bus.tail
            /\ lastEv[s].kind = "closed")

\* The bus closed after a message was sent, and a sink has received Closed
\* and left its loop.
C9_Witness ==
  /\ BusClosed /\ bus.tail >= 1
  /\ \E s \in Sinks : spc[s] = "done" /\ lastEv[s].kind = "closed"

\* The Result sink s holds has no samples.
NoValues(s) == IsEmpty(cur[s].values)

\* C10 as stated: both sinks write the raw text iff the Result has no
\* samples or always_write_raw is set.
C10_SamePolicy ==
  \A s \in Sinks :
    curPos[s] >= 0 => (rawCalled[s] <=> (NoValues(s) \/ always_write_raw[s]))

\* C10: the File sink writes the raw text iff the Result has no samples or
\* always_write_raw is set; the InfluxDB sink writes it iff the Result has
\* no samples and use_raw_as_fallback is set, or always_write_raw is set.
\* What is written is the Result's text under the key "<key>.raw".
C10_RawPolicy ==
  \A s \in Sinks :
    /\ (curPos[s] >= 0 /\ SinkType(s) = "file") =>
         (rawCalled[s] <=> (NoValues(s) \/ always_write_raw[s]))
    /\ (curPos[s] >= 0 /\ SinkType(s) = "influx") =>
         (rawCalled[s] <=>
            ((NoValues(s) /\ use_raw_as_fallback[s]) \/ always_write_raw[s]))
    /\ spc[s] = "raw" => rawCalled[s]
    /\ \A k \in 1..Len(store[s]) :
         store[s][k].kind = "raw" =>
           /\ store[s][k].key = Sent(store[s][k].pos).key \o RawSuffix
           /\ store[s][k].text = Sent(store[s][k].pos).raw
           /\ store[s][k].pos = curPos[s] => rawCalled[s]

\* The InfluxDB sink, with neither flag set, has received a Result without
\* samples and is back in recv with nothing written for it.
C10_Witness ==
  \E s \in Sinks :
    /\ SinkType(s) = "influx" /\ curPos[s] >= 0 /\ NoValues(s)
    /\ ~use_raw_as_fallback[s] /\ ~always_write_raw[s]
    /\ ~rawCalled[s] /\ spc[s] = "recv"
    /\ \A k \in 1..Len(store[s]) : store[s][k].pos # curPos[s]

\* C11: in the InfluxDB sink the raw text of a Result is written exactly
\* when (the Result has no samples and use_raw_as_fallback is set) or
\* always_write_raw is set: use_raw_as_fallback alone never causes a raw
\* write for a Result with samples, always_write_raw alone causes one for
\* every Result, and with neither flag nothing raw is ever stored.
C11_InfluxFallback ==
  \A s \in Sinks :
    (SinkType(s) = "influx" /\ spc[s] # "absent") =>
      /\ curPos[s] >= 0 =>
           /\ rawCalled[s] <=>
                ((NoValues(s) /\ use_raw_as_fallback[s])
                   \/ always_write_raw[s])
           /\ (use_raw_as_fallback[s] /\ ~always_write_raw[s]) =>
                (rawCalled[s] <=> NoValues(s))
           /\ always_write_raw[s] => rawCalled[s]
      /\ \A k \in 1..Len(store[s]) :
           store[s][k].kind = "raw" =>
             \/ always_write_raw[s]
             \/ /\ use_raw_as_fallback[s]
                /\ IsEmpty(Sent(store[s][k].pos).values)

\* The InfluxDB sink with only use_raw_as_fallback set has stored the raw
\* text of a Result without samples, and now holds a Result with a sample
\* for which it has called no raw write.
C11_Witness ==
  \E s \in Sinks :
    /\ SinkType(s) = "influx"
    /\ use_raw_as_fallback[s] /\ ~always_write_raw[s]
    /\ \E k \in 1..Len(store[s]) : store[s][k].kind = "raw"
    /\ curPos[s] >= 1 /\ ~NoValues(s) /\ ~rawCalled[s]

\* The writes of sink s that are in its backend, whole or in part, or on
\* their way to it.
Written(s) ==
  pending[s]
    \cup {[store[s][k] EXCEPT !.partial = FALSE] : k \in 1..Len(store[s])}

\* Every sample of the Result sink s holds is in its store.
AllSamplesStored(s) ==
  \A m \in DOMAIN cur[s].values :
    \E k \in 1..Len(store[s]) :
      store[s][k] = ValueWrite(s, cur[s], m, curPos[s])

\* C12: for a received Result with samples the sink calls the sample write
\* with every sample of the Result still to be written, whether or not it
\* wrote the raw text first and whether or not that write succeeded; what
\* a step of the sample write adds to the sink's writes are samples of
\* that Result; and every sample is persisted: once the sink is back at
\* receiving and none of its writes is on its way, every sample of the
\* Result it holds is in its store.
C12_EverySamplePersisted ==
  /\ [][\A s \in Sinks :
          /\ (lastEv'[s] # lastEv[s] /\ lastEv'[s].kind = "msg"
                /\ ~IsEmpty(cur'[s].values)) =>
               /\ spc'[s] \in {"raw", "values"}
               /\ todo'[s] = DOMAIN cur'[s].values
          /\ (spc[s] = "raw" /\ spc'[s] # "raw") =>
               /\ spc'[s] = "values" <=> ~NoValues(s)
               /\ todo'[s] = DOMAIN cur[s].values
               /\ cur'[s] = cur[s]
          /\ (spc[s] = "values" /\ todo'[s] # todo[s]) =>
               /\ todo'[s] \subseteq todo[s]
               /\ spc'[s] = IF todo'[s] = {} THEN "recv" ELSE "values"
               /\ \A w \in Written(s)' \ Written(s) :
                    \E m \in todo[s] \ todo'[s] :
                      w = ValueWrite(s, cur[s], m, curPos[s])
         ]_vars
  /\ [](\A s \in Sinks :
          /\ spc[s] = "values" => (todo[s] # {} /\ ~NoValues(s))
          /\ todo[s] \subseteq DOMAIN cur[s].values
          /\ (curPos[s] >= 0 /\ spc[s] = "recv" /\ pending[s] = {}
                /\ ~NoValues(s)) => AllSamplesStored(s))

\* C13: a write of a sink, failed or not, leaves the sink in its loop: after
\* the raw write it goes on to the sample write if the Result has samples
\* and to receiving otherwise, after the sample write it goes on to
\* receiving, and nothing but its store depends on how the write went; a
\* sink leaves its loop only on Closed.
C13_FailedWriteKeepsSink ==
  /\ [][\A s \in Sinks :
          (spc[s] \in {"raw", "values"} /\ spc'[s] # spc[s]) =>
            /\ spc'[s] = IF spc[s] = "raw" /\ ~NoValues(s)
                         THEN "values" ELSE "recv"
            /\ next'[s] = next[s] /\ cur'[s] = cur[s]
            /\ curPos'[s] = curPos[s] /\ lastEv'[s] = lastEv[s]
            /\ skipped'[s] = skipped[s]
            /\ always_write_raw'[s] = always_write_raw[s]
            /\ use_raw_as_fallback'[s] = use_raw_as_fallback[s]]_vars
  /\ [](\A s \in Sinks :
          /\ spc[s] = "done" => lastEv[s].kind = "closed"
          /\ spc[s] \in {"raw", "values"} =>
               ENABLED (SinkStep(s) /\ store'[s] = store[s]
                          /\ pending'[s] = pending[s]))

\* A sink never lagged; every write for the first Result, which had a
\* sample, failed; and it has stored a write for the second Result.
C13_Witness ==
  \E s \in Sinks :
    /\ skipped[s] = 0 /\ curPos[s] = 1
    /\ ~IsEmpty(Sent(0).values)
    /\ \A k \in 1..Len(store[s]) : store[s][k].pos = 1
    /\ Len(store[s]) >= 1

(***************************************************************************)
(* Isolation of the items (spec sections 4.3 and 5).                       *)
(***************************************************************************)
\* Item i did something in this step.
ItemMoves(i) ==
  \/ pc'[i] # pc[i] \/ nTicks'[i] # nTicks[i]
  \/ nFail'[i] # nFail[i] \/ nSend'[i] # nSend[i]

\* C14: whatever an item does, fail or hang in its execution included,
\* changes nothing of another item: a due timer of the other item fires,
\* the send of an executing other item waits for nothing, an idle one whose
\* own executions were shorter than its interval is never overdue, its
\* ticks stay at start + N * interval with one Result for each, and a sink
\* with a message to receive can receive it.
C14_ItemIsolation ==
  /\ [][\A i \in Items, j \in Items :
          (i # j /\ ItemMoves(i)) =>
            /\ pc'[j] = pc[j] /\ deadline'[j] = deadline[j]
            /\ startAt'[j] = startAt[j] /\ nTicks'[j] = nTicks[j]
            /\ lastTickAt'[j] = lastTickAt[j] /\ inflight'[j] = inflight[j]
            /\ nFail'[j] = nFail[j] /\ nSend'[j] = nSend[j]
            /\ onTime'[j] = onTime[j]
            /\ nFail'[i] > nFail[i] => UNCHANGED <<busVars, sinkVars>>]_vars
  /\ [](\A j \in Items :
          /\ (pc[j] = "idle" /\ now >= deadline[j]) => ENABLED ItemTick(j)
          /\ (pc[j] = "idle" /\ onTime[j]) => now <= deadline[j]
          /\ pc[j] = "executing" => SendReady
          /\ OnSchedule(j) =>
               /\ lastTickAt[j] = startAt[j] + (nTicks[j] - 1) * Interval(j)
               /\ nSend[j] = nTicks[j] - inflight[j])
  /\ [](\A s \in Sinks :
          (spc[s] = "recv" /\ next[s] < bus.tail) =>
            ENABLED (SinkRecvOk(s) \/ SinkRecvLagged(s)))

\* One item has been in an execution for two of its intervals while the
\* other, on schedule, has ticked twice and the sink holds a Result of it.
C14_Witness ==
  \E i \in Items, j \in Items :
    /\ i # j
    /\ pc[i] = "executing" /\ now - lastTickAt[i] >= 2 * Interval(i)
    /\ OnSchedule(j) /\ nTicks[j] >= 2
    /\ \E s \in Sinks : curPos[s] >= 0 /\ cur[s].key = ItemKey(j)

\* C15: a send that finds no subscriber stores nothing and costs the item
\* nothing: the item is back in its loop with the timer as it was, the send
\* is not counted as a failed execution, and the item keeps its schedule,
\* one send for every finished tick.
C15_NoSubscriberPublish ==
  /\ [][\A i \in Items :
          (nSend'[i] > nSend[i] /\ ReceiverCount = 0) =>
            /\ bus' = bus /\ sentLog' = sentLog
            /\ pc'[i] = "idle" /\ deadline'[i] = deadline[i]
            /\ nFail'[i] = nFail[i] /\ nTicks'[i] = nTicks[i]]_vars
  /\ [](\A i \in Items :
          /\ pc[i] = "executing" => ENABLED ItemPublish(i)
          /\ (OnSchedule(i) /\ ReceiverCount = 0) =>
               /\ lastTickAt[i] = startAt[i] + (nTicks[i] - 1) * Interval(i)
               /\ pc[i] = "idle" => deadline[i] = lastTickAt[i] + Interval(i)
               /\ nSend[i] = nTicks[i] - inflight[i])

\* With no subscriber an item has sent, found none, and is executing its
\* next tick one interval later.
C15_Witness ==
  \E i \in Items :
    /\ ReceiverCount = 0 /\ bus.tail = 0
    /\ nSend[i] >= 1 /\ nFail[i] = 0 /\ nTicks[i] = nSend[i] + 1
    /\ pc[i] = "executing" /\ lastTickAt[i] = startAt[i] + nSend[i] * Interval(i)

(***************************************************************************)
(* Properties of the digest engine (spec section 4.2), on one call of      *)
(* digest (DigestSpec).                                                    *)
(***************************************************************************)
\* C16: digest returns a Result for every raw text and every digest mode,
\* patterns with optional or alternative named groups included: no call
\* ends in a crash of the item's task.
C16_DigestReturns == dout.state # "panic"

\* The sample names of a Regex digest: one per named group of the pattern.
GroupKeys(regex, itemkey) ==
  {itemkey \o <<".">> \o cn : cn \in capture_names(regex)}

\* C17: Regex mode: when the pattern matches the trimmed text, the call
\* returns a Result with one sample "<key>.<group>" for every named group
\* of the pattern, a number or NaN; when it does not match, the sample set
\* of the Result is empty.
C17_RegexSamples ==
  (din.kind.type = "Regex" /\ dout # NotCalled) =>
     /\ dout.state = "ok"
     /\ IF captures(din.kind.regex, trim(din.raw)).some
        THEN DOMAIN dout.result.values = GroupKeys(din.kind.regex, din.itemkey)
        ELSE dout.result.values = EmptyValues

\* C18: Raw mode: digest trims the text; when the trimmed text parses as a
\* number the sample set is exactly {"<key>.parsed": value}, otherwise it
\* is empty, and in both cases the Result carries the (trimmed) text.
C18_RawParsed ==
  (din.kind.type = "Raw" /\ dout # NotCalled) =>
     LET text == trim(din.raw)
         parsed == ParseF64(text)
     IN  /\ dout.state = "ok"
         /\ dout.result.raw = text
         /\ text # << >> =>
              Head(text) \notin Whitespace /\ text[Len(text)] \notin Whitespace
         /\ parsed.ok =>
              dout.result.values =
                [m \in {din.itemkey \o <<".", "p", "a", "r", "s", "e", "d">>} |->
                   parsed.val]
         /\ ~parsed.ok => dout.result.values = EmptyValues

\* A Raw call on a number between blanks has returned its one sample.
C18_Witness ==
  /\ din.kind.type = "Raw"
  /\ dout.state = "ok"
  /\ din.raw # dout.result.raw
  /\ DOMAIN dout.result.values =
       {din.itemkey \o <<".", "p", "a", "r", "s", "e", "d">>}

\* Where the first "|" of a text is, 0 when it has none.
FirstPipe(text) ==
  IF \E k \in 1..Len(text) : text[k] = "|"
  THEN CHOOSE k \in 1..Len(text) :
         text[k] = "|" /\ \A j \in 1..(k - 1) : text[j] # "|"
  ELSE 0

StatusTokens ==
  { <<"O", "K">>, <<"W", "A", "R", "N", "I", "N", "G">>,
    <<"C", "R", "I", "T", "I", "C", "A", "L">>,
    <<"U", "N", "K", "N", "O", "W", "N">> }

\* A status token stands somewhere before the first "|" of the text.
StatusBeforePipe(text) ==
  \E tok \in StatusTokens :
    \E k \in 1..(FirstPipe(text) - Len(tok)) :
      SubSeq(text, k, k + Len(tok) - 1) = tok

\* A returned call of digest in MonitoringPlugin mode.
PluginCalled == din.kind.type = "MonitoringPlugin" /\ dout.state = "ok"

\* C19 as stated: in MonitoringPlugin mode a text without "|", or without
\* a status token before the "|", gives an empty sample set.
C19_NoStatusNoSamples ==
  (PluginCalled /\ ~StatusBeforePipe(trim(din.raw))) =>
     dout.result.values = EmptyValues

\* C19, amended: in MonitoringPlugin mode a text without "|" gives an empty
\* sample set; a text with "|" and no status token before it gives no
\* status sample, and the samples of the performance entries after its
\* first "|" all the same.
C19_PipeDecides ==
  (din.kind.type = "MonitoringPlugin" /\ dout # NotCalled) =>
     LET text == trim(din.raw)
         perf == SubSeq(text, FirstPipe(text) + 1, Len(text))
     IN  /\ dout.state = "ok"
         /\ FirstPipe(text) = 0 => dout.result.values = EmptyValues
         /\ (FirstPipe(text) > 0 /\ ~StatusBeforePipe(text)) =>
              dout.result.values =
                PerfValues(EmptyValues, perf,
                           captures_iter(PerformanceRegex, perf), din.itemkey)

\* A line with "|" and no status token has given the sample of its entry.
C19_Witness ==
  /\ PluginCalled
  /\ FirstPipe(trim(din.raw)) > 0
  /\ ~StatusBeforePipe(trim(din.raw))
  /\ dout.result.values # EmptyValues

\* The performance segment of a plugin line: what follows its first "|".
PerfOf(text) == SubSeq(text, FirstPipe(text) + 1, Len(text))

\* The entries the performance pattern finds in the line given to digest
\* (the captures of each), and the label, the value text and the power of
\* the unit factor of an entry with the captures caps.
EntriesOf(text) ==
  IF FirstPipe(text) = 0 THEN << >>
  ELSE captures_iter(PerformanceRegex, PerfOf(text))
LabelOf(text, caps) == Slice(PerfOf(text), caps[<<"l", "a", "b", "e", "l">>])
ValueOf(text, caps) ==
  ParseF64(Slice(PerfOf(text), caps[<<"v", "a", "l", "u", "e">>]))
FactorOf(text, caps) ==
  LET span == caps[<<"u", "n", "i", "t">>]
  IN  IF span = << >> THEN 0 ELSE ValueFactor(Slice(PerfOf(text), span))

\* No entry after the n-th of entries has its label.
LastOfLabel(text, entries, n) ==
  \A m \in (n + 1)..Len(entries) :
    LabelOf(text, entries[m]) # LabelOf(text, entries[n])

\* C20 as stated: in MonitoringPlugin mode an entry whose value text does
\* not parse as a number leaves no sample under "<key>.<label>".
C20_UnparsedSkipped ==
  PluginCalled =>
    LET text == trim(din.raw)
        entries == EntriesOf(text)
    IN  \A n \in 1..Len(entries) :
          (LastOfLabel(text, entries, n) /\ ~ValueOf(text, entries[n]).ok) =>
             (din.itemkey \o <<".">> \o LabelOf(text, entries[n]))
               \notin DOMAIN dout.result.values

\* C20, amended: in MonitoringPlugin mode every entry the performance
\* pattern finds leaves a sample under "<key>.<label>": its value times
\* the unit factor, or NaN when the value text does not parse; the other
\* entries of the line are processed all the same, and there is no sample
\* but the status, these and their warn/crit/min/max.
C20_UnparsedIsNaN ==
  (din.kind.type = "MonitoringPlugin" /\ dout # NotCalled) =>
    LET text == trim(din.raw)
        entries == EntriesOf(text)
        names == [n \in 1..Len(entries) |->
                    din.itemkey \o <<".">> \o LabelOf(text, entries[n])]
    IN  /\ dout.state = "ok"
        /\ \A n \in 1..Len(entries) :
             LastOfLabel(text, entries, n) =>
               /\ names[n] \in DOMAIN dout.result.values
               /\ dout.result.values[names[n]] =
                    IF ValueOf(text, entries[n]).ok
                    THEN Mul(ValueOf(text, entries[n]).val,
                             FactorOf(text, entries[n]))
                    ELSE NaN
        /\ DOMAIN dout.result.values \subseteq
             {din.itemkey \o <<".", "s", "t", "a", "t", "u", "s">>}
               \cup {names[n] : n \in 1..Len(entries)}
               \cup {names[n] \o <<".">> \o Extras[e] :
                       n \in 1..Len(entries), e \in 1..Len(Extras)}

\* A line with an entry whose value does not parse and another whose value
\* does: the first has left NaN, the second its number.
C20_Witness ==
  /\ PluginCalled
  /\ LET text == trim(din.raw)
         entries == EntriesOf(text)
         name(n) == din.itemkey \o <<".">> \o LabelOf(text, entries[n])
     IN  \E n, m \in 1..Len(entries) :
           /\ ~ValueOf(text, entries[n]).ok
           /\ ValueOf(text, entries[m]).ok
           /\ name(n) # name(m)
           /\ name(n) \in DOMAIN dout.result.values
           /\ dout.result.values[name(n)] = NaN
           /\ name(m) \in DOMAIN dout.result.values
           /\ dout.result.values[name(m)].class = "finite"

\* The power p of the factor 1024^p the unit of an entry stands for: 1 for
\* KB, 2 for MB, 3 for GB, 4 for TB, 0 for any other unit and for none.
UnitPower(text, caps) ==
  LET span == caps[<<"u", "n", "i", "t">>]
      unit == IF span = << >> THEN << >> ELSE Slice(PerfOf(text), span)
  IN  IF unit = <<"K", "B">> THEN 1
      ELSE IF unit = <<"M", "B">> THEN 2
      ELSE IF unit = <<"G", "B">> THEN 3
      ELSE IF unit = <<"T", "B">> THEN 4
      ELSE 0

\* The number a field (the value, or one of warn, crit, min, max) of an
\* entry stands for, not ok when the field is absent or does not parse.
FieldOf(text, caps, field) ==
  IF caps[field] = << >> THEN [ok |-> FALSE, val |-> NaN]
  ELSE ParseF64(Slice(PerfOf(text), caps[field]))

\* C21: in MonitoringPlugin mode the emitted value of an entry and each of
\* its emitted warn, crit, min and max are the numbers of the line times
\* one factor: 1024, 1024^2, 1024^3, 1024^4 for KB, MB, GB, TB, and 1 for
\* every other unit and for none.
C21_UnitScaling ==
  PluginCalled =>
    LET text == trim(din.raw)
        entries == EntriesOf(text)
        values == dout.result.values
    IN  \A n \in 1..Len(entries) :
          LastOfLabel(text, entries, n) =>
            LET name == din.itemkey \o <<".">> \o LabelOf(text, entries[n])
                power == UnitPower(text, entries[n])
                value == FieldOf(text, entries[n], <<"v", "a", "l", "u", "e">>)
            IN  /\ value.ok =>
                     /\ name \in DOMAIN values
                     /\ values[name] = Mul(value.val, power)
                /\ \A e \in 1..Len(Extras) :
                     LET extra == FieldOf(text, entries[n], Extras[e])
                         ename == name \o <<".">> \o Extras[e]
                     IN  IF extra.ok
                         THEN /\ ename \in DOMAIN values
                              /\ values[ename] = Mul(extra.val, power)
                         ELSE ename \notin DOMAIN values

\* A line with the entry e=7TB;1;1;1;1 has given 7 * 1024^4 and a maximum
\* of 1024^4.
C21_Witness ==
  /\ PluginCalled
  /\ (din.itemkey \o <<".", "e">>) \in DOMAIN dout.result.values
  /\ dout.result.values[din.itemkey \o <<".", "e">>] = Scaled(7, 4)
  /\ (din.itemkey \o <<".", "e", ".", "m", "a", "x">>)
       \in DOMAIN dout.result.values
  /\ dout.result.values[din.itemkey \o <<".", "e", ".", "m", "a", "x">>]
       = Scaled(1, 4)

\* C22: every value of the sample set of a Result is a finite number or
\* NaN, never an infinity, for every digest mode and every raw text.
C22_NoInfinity ==
  dout.state = "ok" =>
    \A m \in DOMAIN dout.result.values : dout.result.values[m].class # "inf"

\* C23 as stated: the raw field of a Result is the text the source
\* execution returned, as captured, and its key field is the item's key.
C23_RawIsOriginal ==
  dout.state = "ok" =>
    /\ dout.result.raw = din.raw
    /\ dout.result.key = din.itemkey

\* t is the text original without the whitespace at its two ends.
IsTrimOf(t, original) ==
  /\ t # << >> => Head(t) \notin Whitespace /\ t[Len(t)] \notin Whitespace
  /\ \E a \in 1..(Len(original) + 1) :
       /\ a + Len(t) - 1 <= Len(original)
       /\ t = SubSeq(original, a, a + Len(t) - 1)
       /\ \A k \in 1..Len(original) :
            (k < a \/ k > a + Len(t) - 1) => original[k] \in Whitespace

\* C23, amended: the raw field of a Result is the text the source
\* execution returned without its leading and trailing whitespace, in
\* every digest mode, and its key field is the item's key.
C23_RawIsTrimmed ==
  dout # NotCalled =>
    (dout.state = "ok" \/ din.kind.type = "Regex") /\
    (dout.state = "ok" =>
       /\ IsTrimOf(dout.result.raw, din.raw)
       /\ dout.result.key = din.itemkey)

\* A plugin line that ended in a blank has become a Result without it.
C23_Witness ==
  /\ PluginCalled
  /\ dout.result.raw # << >>
  /\ din.raw = dout.result.raw \o <<" ">>
  /\ dout.result.key = din.itemkey

(***************************************************************************)
(* Properties of conf::load, on one call of it (LoadSpec).                 *)
(***************************************************************************)
\* C24: load returns a Config only if the keys of its items are pairwise
\* distinct and every interval is greater than 0, and then the Config has
\* the items of the text; with a key that occurs twice or an interval of 0
\* it returns an error.
C24_LoadChecks ==
  loaded # NotLoaded =>
    LET distinct == \A j, k \in 1..Len(cfg) : cfg[j].key = cfg[k].key => j = k
        positive == \A k \in 1..Len(cfg) : cfg[k].interval > 0
    IN  /\ loaded.state = "ok" => distinct /\ positive /\ loaded.items = cfg
        /\ ~(distinct /\ positive) => loaded.state = "err"

\* load has turned down a configuration whose first and third item have
\* the same key, with another key between them.
C24_Witness ==
  /\ loaded.state = "err"
  /\ Len(cfg) = 3
  /\ cfg[1].key = cfg[3].key
  /\ cfg[1].key # cfg[2].key
  /\ \A k \in 1..3 : cfg[k].interval > 0

\* The decimal digits of a number n >= 0.
DigitChar(d) ==
  CASE d = 0 -> "0" [] d = 1 -> "1" [] d = 2 -> "2" [] d = 3 -> "3"
    [] d = 4 -> "4" [] d = 5 -> "5" [] d = 6 -> "6" [] d = 7 -> "7"
    [] d = 8 -> "8" [] d = 9 -> "9"
RECURSIVE Decimal(_)
Decimal(n) ==
  IF n < 10 THEN <<DigitChar(n)>>
  ELSE Decimal(n \div 10) \o <<DigitChar(n % 10)>>

\* Plugin lines of the form "<text> STATUS <text>|e1 e2 ... en": the
\* messages, each with the value of its status token, and the entries
\* label=value;warn;crit;min; as the numbers they spell.
StatusMessages ==
  { [text |-> <<"O", "K", " ">>, status |-> 0],
    [text |-> <<"W", "A", "R", "N", "I", "N", "G">>, status |-> 1],
    [text |-> <<"C", "R", "I", "T", "I", "C", "A", "L", " ", "x">>, status |-> 2],
    [text |-> <<"U", "N", "K", "N", "O", "W", "N", " ">>, status |-> 3],
    [text |-> <<"x", " ", "O", "K", " ", "-", " ", "y", ":", " ", "3", ",", " ", "4">>, status |-> 0] }
EntryP == [label |-> <<"p">>, value |-> 3, warn |-> 10, crit |-> 15, min |-> 0]
EntryQ == [label |-> <<"q">>, value |-> 4, warn |-> 5, crit |-> 6, min |-> 0]
LoadEntries ==
  << [label |-> <<"l", "o", "a", "d", "1">>, value |-> 3, warn |-> 10, crit |-> 15, min |-> 0],
     [label |-> <<"l", "o", "a", "d", "5">>, value |-> 4, warn |-> 5, crit |-> 6, min |-> 0],
     [label |-> <<"l", "o", "a", "d", "1", "5">>, value |-> 2, warn |-> 3, crit |-> 4, min |-> 0] >>
RECURSIVE FullEntryLists(_)
FullEntryLists(n) ==
  IF n = 0 THEN {<< >>}
  ELSE {<< >>} \cup {<<e>> \o l : e \in {EntryP, EntryQ}, l \in FullEntryLists(n - 1)}
FullLines ==
  { [message |-> m, entries |-> es] :
      m \in StatusMessages, es \in FullEntryLists(MaxEntries) \ {<< >>} }
    \cup { [message |-> [text |-> <<"L", "O", "A", "D", " ", "O", "K", " ", "-", " ", "l", "o", "a", "d", " ", "a", "v", "e", "r", "a", "g", "e", ":", " ", "3", ",", " ", "4", ",", " ", "2">>,
                         status |-> 0],
            entries |-> LoadEntries] }

EntryText(e) ==
  e.label \o <<"=">> \o Decimal(e.value) \o <<";">> \o Decimal(e.warn)
    \o <<";">> \o Decimal(e.crit) \o <<";">> \o Decimal(e.min) \o <<";">>
RECURSIVE JoinEntries(_)
JoinEntries(es) ==
  IF es = << >> THEN << >>
  ELSE IF Len(es) = 1 THEN EntryText(es[1])
  ELSE EntryText(es[1]) \o <<" ">> \o JoinEntries(Tail(es))
LineText(line) == line.message.text \o <<"|">> \o JoinEntries(line.entries)

\* The samples C25 names for such a line.
RECURSIVE FullSamples(_, _, _)
FullSamples(values, es, key) ==
  IF es = << >> THEN values
  ELSE LET e == Head(es)
           name == key \o <<".">> \o e.label
       IN  FullSamples(
             Insert(Insert(Insert(Insert(values, name, F64(e.value)),
                                  name \o <<".", "w", "a", "r", "n">>, F64(e.warn)),
                           name \o <<".", "c", "r", "i", "t">>, F64(e.crit)),
                    name \o <<".", "m", "i", "n">>, F64(e.min)),
             Tail(es), key)
LineSamples(line, key) ==
  FullSamples(Insert(EmptyValues, key \o <<".", "s", "t", "a", "t", "u", "s">>,
                     F64(line.message.status)),
              line.entries, key)

\* C25: a line "<text> STATUS <text>|e1 e2 ... en" with entries of the
\* form label=value;warn;crit;min; gives the samples "<key>.status" and,
\* for each of the n entries and nothing else, "<key>.<label>" and its
\* .warn, .crit and .min, each with its own number, and no .max.
C25_FullLine ==
  (din.kind.type = "MonitoringPlugin" /\ dout # NotCalled) =>
    \A line \in FullLines :
      trim(din.raw) = LineText(line) =>
        /\ dout.state = "ok"
        /\ dout.result.values = LineSamples(line, din.itemkey)

\* The line of the test, with its three entries, has given its thirteen
\* samples.
C25_Witness ==
  /\ PluginCalled
  /\ din.raw = CheckLoad
  /\ \E line \in FullLines : LineText(line) = CheckLoad
  /\ Cardinality(DOMAIN dout.result.values) = 13

(***************************************************************************)
(* Properties of the File sink (spec section 4.5).                         *)
(***************************************************************************)
\* The writes of samples that sink s has made for the Result sent at p.
SampleWrites(s, p) == {w \in Written(s) : w.kind = "value" /\ w.pos = p}

\* C27: in the File sink the samples of one Result are written one after
\* another, one per step of write_values: a step either hands the write of
\* one sample that was still to be written to the file, or it fails, and
\* then nothing is written, no sample is left to be written and the sink
\* receives again; a write of a sample is made in no other step, and only
\* a receive gives the sink samples to write.  And the first failing write
\* is the last one made for the Result: when the write of a sample of the
\* Result the sink holds fails, no sample of it is left to be written.
C27_AbortOnFailure ==
  [][\A s \in Sinks :
       SinkType(s) = "file" =>
         /\ (spc[s] = "values" /\ todo'[s] # todo[s]) =>
              \/ \E m \in todo[s] :
                   /\ pending'[s] =
                        pending[s] \cup {ValueWrite(s, cur[s], m, curPos[s])}
                   /\ todo'[s] = todo[s] \ {m}
                   /\ spc'[s] = IF todo'[s] = {} THEN "recv" ELSE "values"
              \/ /\ pending'[s] = pending[s]
                 /\ todo'[s] = {}
                 /\ spc'[s] = "recv"
         /\ (\E w \in pending'[s] \ pending[s] : w.kind = "value") =>
              (spc[s] = "values" /\ todo'[s] # todo[s])
         /\ ~(todo'[s] \subseteq todo[s]) => lastEv'[s] # lastEv[s]
         /\ (\E w \in pending[s] :
               /\ w.kind = "value" /\ w.pos = curPos[s]
               /\ pending'[s] = pending[s] \ {w} /\ store'[s] = store[s]) =>
              todo[s] = {}
    ]_vars

\* The lines the calls that returned Ok wrote for a metric key, in their
\* order, one after the other.
RECURSIVE LinesFor(_, _)
LinesFor(log, key) ==
  IF log = << >> THEN << >>
  ELSE (IF Head(log).key = key THEN Head(log).line ELSE << >>)
         \o LinesFor(Tail(log), key)

\* C26: after any sequence of successful writes the file of each metric
\* key (named as the key with "/" replaced by "_") holds exactly the lines
\* written for that key, in write order; so no write changes what a file
\* held, and writes for different keys go to different files.
C26_FileLayout ==
  \A k \in 1..Len(wlog) :
    /\ FileName(wlog[k].key) \in DOMAIN files
    /\ files[FileName(wlog[k].key)] = LinesFor(wlog, wlog[k].key)

(***************************************************************************)
(* Properties of app::start (AppSpec).                                     *)
(***************************************************************************)
\* How often item i is in the queue h.
TimesIn(h, i) == Cardinality({k \in 1..Len(h) : h[k].item = i})

\* C28: a worker is spawned for an item only when the item's next_time
\* is not later than the current time; with the spawn the queue holds the
\* same items as before, each once, the dispatched item with next_time =
\* current time + interval, which is later than the current time, and the
\* others with the next_time they had.
C28_DispatchRequeues ==
  [][Len(spawned') > Len(spawned) =>
       LET d == spawned'[Len(spawned')]
       IN  /\ d.at = instant
           /\ \E k \in 1..Len(heap) :
                heap[k].item = d.item /\ heap[k].next_time <= instant
           /\ \A i \in Items : TimesIn(heap', i) = TimesIn(heap, i)
           /\ \A k \in 1..Len(heap') :
                IF heap'[k].item = d.item
                THEN /\ heap'[k].next_time = instant + Interval(d.item)
                     /\ heap'[k].next_time > instant
                ELSE \E j \in 1..Len(heap) : heap[j] = heap'[k]]_vars

\* An item was dispatched, and again when its interval had passed, and
\* the queue still has both items.
C28_Witness ==
  /\ Len(heap) = 2
  /\ \E a, b \in 1..Len(spawned) :
       /\ a < b
       /\ spawned[a].item = spawned[b].item
       /\ spawned[b].at = spawned[a].at + Interval(spawned[a].item)

====
